---- MODULE Spec2Model ----
(***************************************************************************)
(* Voice notification server (voice-server/server.ts): the fetch handler   *)
(* with its fixed-window rate limiter, input validation and sanitization,  *)
(* and the cascading TTS pipeline ElevenLabs -> Piper -> macOS with the    *)
(* shared consecutive-failure counter.                                     *)
(*                                                                         *)
(* The JavaScript runtime is single threaded: every action below is one    *)
(* synchronous section of the code, from one await (or the arrival of the  *)
(* request) to the next await (or the response).  Requests interleave only *)
(* at awaits.                                                              *)
(***************************************************************************)
EXTENDS Integers, Sequences, FiniteSets, TLC

VARIABLES now, requestCounts, elevenLabsFailCount, env, req, hist, inst, hook

vars == <<now, requestCounts, elevenLabsFailCount, env, req, hist, inst, hook>>

\* the variables of the voice server
server == <<now, requestCounts, elevenLabsFailCount, env, req, hist>>

\* the installer has not been started
NotStarted == [pc |-> "off"]


(***************************************************************************)
(* Program constants                                                       *)
(***************************************************************************)
ELEVENLABS_MAX_FAILS == 3
RATE_LIMIT == 10
RATE_WINDOW == 60000
MAX_INPUT_LENGTH == 500

(***************************************************************************)
(* Bounds of the model                                                     *)
(***************************************************************************)
\* number of clock steps a behaviour takes (each of 1 ms or of RATE_WINDOW ms)
MaxTicks == 2
\* requests that can be in flight at the same time
MaxSlots == 2
\* pieces per message given to the sanitizer
MaxPieces == 3
\* runs of the installer's settings merge on the same directory
MaxRuns == 2

(***************************************************************************)
(* Strings are sequences of one-character strings.                         *)
(***************************************************************************)
WhiteSpace == {" ", "\t", "\n"}
IsSpace(c) == c \in WhiteSpace
\* the backquote character, which the module's lexer cannot hold in a string
BACKQUOTE == "bq"
IsShellMeta(c) == c \in {";", "&", "|", ">", "<", BACKQUOTE, "$", "\\"}
UpperCase ==
    <<"A", "B", "C", "D", "E", "F", "G", "H", "I", "J",
      "K", "L", "M", "N", "O", "P", "Q", "R", "S", "T",
      "U", "V", "W", "X", "Y", "Z">>
LowerCase ==
    <<"a", "b", "c", "d", "e", "f", "g", "h", "i", "j",
      "k", "l", "m", "n", "o", "p", "q", "r", "s", "t",
      "u", "v", "w", "x", "y", "z">>
Digits == {"0", "1", "2", "3", "4", "5", "6", "7", "8", "9"}
\* \w
WordChars ==
    {UpperCase[i] : i \in 1..26} \cup {LowerCase[i] : i \in 1..26}
       \cup Digits \cup {"_"}
\* c.toLowerCase(), and the letter both cases are compared by under the i flag
Lower(c) ==
    IF \E i \in 1..26 : UpperCase[i] = c
    THEN LowerCase[CHOOSE i \in 1..26 : UpperCase[i] = c]
    ELSE c

\* s.substring(i - 1): the suffix of s that starts at the 1-based index i
Drop(s, i) == IF i > Len(s) THEN <<>> ELSE SubSeq(s, i, Len(s))

\* the concatenation of a sequence of strings
RECURSIVE Flatten(_)
Flatten(ps) == IF ps = <<>> THEN <<>> ELSE Head(ps) \o Flatten(Tail(ps))

\* s.substring(0, n)
Substring0(s, n) == IF Len(s) <= n THEN s ELSE SubSeq(s, 1, n)

\* whether pat occurs in s at index i, letters compared case-insensitively
MatchesAtCI(s, i, pat) ==
    /\ i + Len(pat) - 1 <= Len(s)
    /\ \A k \in 1..Len(pat) : Lower(s[i + k - 1]) = pat[k]

\* whether pat occurs in s at index i
MatchesAt(s, i, pat) ==
    /\ i + Len(pat) - 1 <= Len(s)
    /\ \A k \in 1..Len(pat) : s[i + k - 1] = pat[k]

\* length of the longest run of characters of s from index i on that are in S
RECURSIVE RunLenIn(_, _, _)
RunLenIn(s, i, S) ==
    IF i > Len(s) \/ s[i] \notin S THEN 0 ELSE 1 + RunLenIn(s, i + 1, S)

\* length of the longest run of characters of s from index i on that are not c
RECURSIVE RunLenNot(_, _, _)
RunLenNot(s, i, c) ==
    IF i > Len(s) \/ s[i] = c THEN 0 ELSE 1 + RunLenNot(s, i + 1, c)

\* .replace(/<script/gi, ''): one left-to-right pass over the string
RECURSIVE StripScript(_)
StripScript(s) ==
    IF s = <<>> THEN <<>>
    ELSE IF MatchesAtCI(s, 1, <<"<", "s", "c", "r", "i", "p", "t">>)
         THEN StripScript(Drop(s, 8))
         ELSE <<s[1]>> \o StripScript(Drop(s, 2))

\* .replace(/\.\.\//g, ''): one left-to-right pass over the string
RECURSIVE StripTraversal(_)
StripTraversal(s) ==
    IF s = <<>> THEN <<>>
    ELSE IF MatchesAt(s, 1, <<".", ".", "/">>)
         THEN StripTraversal(Drop(s, 4))
         ELSE <<s[1]>> \o StripTraversal(Drop(s, 2))

\* StripShellMeta had the class lacked the angle brackets
StripShellMetaKeepAngle(s) ==
    SelectSeq(s, LAMBDA c : c \notin {";", "&", "|", BACKQUOTE, "$", "\\"})

\* .replace(/[;&|><`$\\]/g, ''): the shell metacharacters
StripShellMeta(s) == SelectSeq(s, LAMBDA c : ~IsShellMeta(c))

\* .replace(/\*\*([^*]+)\*\*/g, '$1')
RECURSIVE StripBold(_)
StripBold(s) ==
    IF s = <<>> THEN <<>>
    ELSE LET n == RunLenNot(s, 3, "*")
         IN IF /\ MatchesAt(s, 1, <<"*", "*">>)
               /\ n >= 1
               /\ MatchesAt(s, 3 + n, <<"*", "*">>)
            THEN SubSeq(s, 3, 2 + n) \o StripBold(Drop(s, 5 + n))
            ELSE <<s[1]>> \o StripBold(Drop(s, 2))

\* .replace(/\*([^*]+)\*/g, '$1')
RECURSIVE StripItalic(_)
StripItalic(s) ==
    IF s = <<>> THEN <<>>
    ELSE LET n == RunLenNot(s, 2, "*")
         IN IF /\ s[1] = "*"
               /\ n >= 1
               /\ MatchesAt(s, 2 + n, <<"*">>)
            THEN SubSeq(s, 2, 1 + n) \o StripItalic(Drop(s, 3 + n))
            ELSE <<s[1]>> \o StripItalic(Drop(s, 2))

\* .replace(/`([^`]+)`/g, '$1')
RECURSIVE StripCode(_)
StripCode(s) ==
    IF s = <<>> THEN <<>>
    ELSE LET n == RunLenNot(s, 2, BACKQUOTE)
         IN IF /\ s[1] = BACKQUOTE
               /\ n >= 1
               /\ MatchesAt(s, 2 + n, <<BACKQUOTE>>)
            THEN SubSeq(s, 2, 1 + n) \o StripCode(Drop(s, 3 + n))
            ELSE <<s[1]>> \o StripCode(Drop(s, 2))

\* StripHeading had the pattern not asked for whitespace after the '#'
StripHeadingAnyHash(s) == SelectSeq(s, LAMBDA c : c # "#")

\* .replace(/#{1,6}\s+/g, ''): one to six '#' followed by whitespace
RECURSIVE StripHeading(_)
StripHeading(s) ==
    IF s = <<>> THEN <<>>
    ELSE LET h == RunLenIn(s, 1, {"#"})
             w == RunLenIn(s, 1 + h, WhiteSpace)
         IN IF h >= 1 /\ h <= 6 /\ w >= 1
            THEN StripHeading(Drop(s, 1 + h + w))
            ELSE <<s[1]>> \o StripHeading(Drop(s, 2))

\* .trim()
RECURSIVE TrimLeft(_)
TrimLeft(s) ==
    IF s # <<>> /\ IsSpace(s[1]) THEN TrimLeft(Drop(s, 2)) ELSE s

RECURSIVE TrimRight(_)
TrimRight(s) ==
    IF s # <<>> /\ IsSpace(s[Len(s)]) THEN TrimRight(SubSeq(s, 1, Len(s) - 1)) ELSE s

Trim(s) == TrimRight(TrimLeft(s))

sanitizeForSpeech(input) ==
    Substring0(
        Trim(StripHeading(StripCode(StripItalic(StripBold(
            StripShellMeta(StripTraversal(StripScript(input)))))))),
        MAX_INPUT_LENGTH)

(***************************************************************************)
(* JavaScript values of the request body's fields.                         *)
(***************************************************************************)
Undefined == [type |-> "undefined"]
Num(n) == [type |-> "number", n |-> n]
Str(s) == [type |-> "string", s |-> s]
Bool(b) == [type |-> "boolean", b |-> b]

\* JavaScript truthiness, as used by (x || default) and (!x)
Truthy(v) ==
    CASE v.type = "undefined" -> FALSE
      [] v.type = "number" -> v.n # 0
      [] v.type = "boolean" -> v.b
      [] v.type = "string" -> v.s # <<>>

\* a || b
Or(a, b) == IF Truthy(a) THEN a ELSE b

validateInput(input) ==
    IF ~Truthy(input) \/ input.type # "string"
    THEN [valid |-> FALSE, error |-> "Invalid input type", sanitized |-> <<>>]
    ELSE IF Len(input.s) > MAX_INPUT_LENGTH
    THEN [valid |-> FALSE, error |-> "Message too long (max 500 characters)",
          sanitized |-> <<>>]
    ELSE LET sanitized == sanitizeForSpeech(input.s)
         IN IF sanitized = <<>>
            THEN [valid |-> FALSE,
                  error |-> "Message contains no valid content after sanitization",
                  sanitized |-> <<>>]
            ELSE [valid |-> TRUE, error |-> "", sanitized |-> sanitized]


(***************************************************************************)
(* Rate limiter                                                            *)
(***************************************************************************)
\* requestCounts.set(ip, record)
MapSet(m, k, v) == [x \in DOMAIN m \cup {k} |-> IF x = k THEN v ELSE m[x]]

\* checkRateLimit had it compared with ">" where the code has ">="
checkRateLimitOffByOne(ip, t, rc) ==
    IF ip \notin DOMAIN rc \/ t > rc[ip].resetTime
    THEN [ok |-> TRUE,
          counts |-> MapSet(rc, ip, [count |-> 1, resetTime |-> t + RATE_WINDOW])]
    ELSE IF rc[ip].count > RATE_LIMIT
    THEN [ok |-> FALSE, counts |-> rc]
    ELSE [ok |-> TRUE, counts |-> [rc EXCEPT ![ip].count = @ + 1]]

\* checkRateLimit had it pushed the reset time back on every rejection
checkRateLimitPenalty(ip, t, rc) ==
    IF ip \notin DOMAIN rc \/ t > rc[ip].resetTime
    THEN [ok |-> TRUE,
          counts |-> MapSet(rc, ip, [count |-> 1, resetTime |-> t + RATE_WINDOW])]
    ELSE IF rc[ip].count >= RATE_LIMIT
    THEN [ok |-> FALSE, counts |-> [rc EXCEPT ![ip].resetTime = t + RATE_WINDOW]]
    ELSE [ok |-> TRUE, counts |-> [rc EXCEPT ![ip].count = @ + 1]]

\* checkRateLimit had it kept the old reset time when it restarts the count
checkRateLimitStaleWindow(ip, t, rc) ==
    IF ip \notin DOMAIN rc
    THEN [ok |-> TRUE,
          counts |-> MapSet(rc, ip, [count |-> 1, resetTime |-> t + RATE_WINDOW])]
    ELSE IF t > rc[ip].resetTime
    THEN [ok |-> TRUE, counts |-> [rc EXCEPT ![ip].count = 1]]
    ELSE IF rc[ip].count >= RATE_LIMIT
    THEN [ok |-> FALSE, counts |-> rc]
    ELSE [ok |-> TRUE, counts |-> [rc EXCEPT ![ip].count = @ + 1]]

\* checkRateLimit had it emptied the table when it opens a window
checkRateLimitClearing(ip, t, rc) ==
    IF ip \notin DOMAIN rc \/ t > rc[ip].resetTime
    THEN [ok |-> TRUE,
          counts |-> MapSet(<<>>, ip, [count |-> 1, resetTime |-> t + RATE_WINDOW])]
    ELSE IF rc[ip].count >= RATE_LIMIT
    THEN [ok |-> FALSE, counts |-> rc]
    ELSE [ok |-> TRUE, counts |-> [rc EXCEPT ![ip].count = @ + 1]]

\* checkRateLimit had it opened a new window at the reset time itself
checkRateLimitAtReset(ip, t, rc) ==
    IF ip \notin DOMAIN rc \/ t >= rc[ip].resetTime
    THEN [ok |-> TRUE,
          counts |-> MapSet(rc, ip, [count |-> 1, resetTime |-> t + RATE_WINDOW])]
    ELSE IF rc[ip].count >= RATE_LIMIT
    THEN [ok |-> FALSE, counts |-> rc]
    ELSE [ok |-> TRUE, counts |-> [rc EXCEPT ![ip].count = @ + 1]]

\* checkRateLimit at time t on the table rc: the boolean it returns and the
\* table it leaves
checkRateLimit(ip, t, rc) ==
    IF ip \notin DOMAIN rc \/ t > rc[ip].resetTime
    THEN [ok |-> TRUE,
          counts |-> MapSet(rc, ip, [count |-> 1, resetTime |-> t + RATE_WINDOW])]
    ELSE IF rc[ip].count >= RATE_LIMIT
    THEN [ok |-> FALSE, counts |-> rc]
    ELSE [ok |-> TRUE, counts |-> [rc EXCEPT ![ip].count = @ + 1]]

(***************************************************************************)
(* Requests                                                                *)
(***************************************************************************)
\* the value of headers.get('x-forwarded-for') of a request without the header
NoHeader == "null"

\* const clientIp = req.headers.get('x-forwarded-for') || 'localhost'
clientIp(hdr) == IF hdr = NoHeader THEN "localhost" ELSE hdr

\* the requests sent: <<method, path>>
BasicRoutes == {<<"OPTIONS", "/notify">>, <<"POST", "/notify">>, <<"GET", "/health">>}

DEFAULT_TITLE ==
    <<"P", "A", "I", " ", "N", "o", "t", "i", "f", "i", "c", "a", "t", "i", "o", "n">>
DEFAULT_MESSAGE ==
    <<"T", "a", "s", "k", " ", "c", "o", "m", "p", "l", "e", "t", "e", "d">>

\* the decoded JSON object of a POST /notify; NoBody before it is decoded
NoBody == [json |-> "none", title |-> Undefined, message |-> Undefined,
           voice_enabled |-> Undefined, voice_id |-> Undefined,
           voice_name |-> Undefined]

Body(title, message, voice_enabled, voice_id, voice_name) ==
    [json |-> "object", title |-> title, message |-> message,
     voice_enabled |-> voice_enabled, voice_id |-> voice_id,
     voice_name |-> voice_name]

\* the body of a response that is not the /health snapshot
NoSnapshot == [status |-> "none"]

\* no emotion: the "emotion" property of the result is undefined
NoEmotion == <<>>

\* the value "undefined" where a number is expected
UndefinedSetting == -1

\* the voice settings of a request that has not entered "if (voiceEnabled)"
NoSettings == [stability |-> UndefinedSetting - 1,
               similarity_boost |-> UndefinedSetting - 1]

\* a slot that holds no request
\* `/tmp/${prefix}-${Date.now()}.${ext}`
TempName(prefix, t, ext) == [prefix |-> prefix, at |-> t, ext |-> ext]

\* no temporary file has been named
NoName == [prefix |-> "none"]

Idle == [pc |-> "idle", ip |-> "", method |-> "", path |-> "", body |-> NoBody,
         providers |-> <<>>, tried |-> <<>>, outcomes |-> <<>>, elStatus |-> 0,
         quota |-> FALSE, winner |-> "none", format |-> "none",
         chimed |-> FALSE, chimeEnd |-> "none", played |-> FALSE,
         tempFile |-> "none", failed |-> "none", logged |-> FALSE,
         synthName |-> NoName, playName |-> NoName,
         text |-> <<>>, emotion |-> NoEmotion, voice |-> <<>>,
         voiceSettings |-> NoSettings,
         snapshot |-> NoSnapshot, status |-> 0]

\* a request is in flight from its arrival to its response
InFlight(r) == req[r].pc \notin {"idle", "responded"}

\* the slot a new request takes: the lowest one that holds no request in flight
IsFreeSlot(r) == ~InFlight(r) /\ \A q \in 1..(r - 1) : InFlight(q)

\* new Response(..., { status })
Respond(rec, status) == [rec EXCEPT !.pc = "responded", !.status = status]

\* What an observer of the responses knows of a caller key's window: the time
\* of the window's first request, the requests admitted in it, and whether a
\* request was rejected in it.
NoWindow == [start |-> -1, n |-> 0, rej |-> FALSE]

InWindow(w, t) == w.start >= 0 /\ t <= w.start + RATE_WINDOW

Observe(w, t, admitted) ==
    IF InWindow(w, t)
    THEN IF admitted THEN [w EXCEPT !.n = @ + 1] ELSE [w EXCEPT !.rej = TRUE]
    ELSE [start |-> t, n |-> IF admitted THEN 1 ELSE 0, rej |-> ~admitted]

\* the request at time t is the first after a window in which the caller was
\* being rejected
Reopens(w, t) == w.start >= 0 /\ ~InWindow(w, t) /\ w.rej

\* the request at time t arrives exactly at the reset time of its key's record
AtReset(rc, ip, t) == ip \in DOMAIN rc /\ t = rc[ip].resetTime

\* a request of the given method and path arrives in slot r
Arrival(r, hdr, method, path) ==
    [Idle EXCEPT !.ip = clientIp(hdr), !.method = method, !.path = path]


(***************************************************************************)
(* The fetch handler up to its first await                                 *)
(***************************************************************************)
\* the OPTIONS branch had it been placed after the rate limiter
FetchOptionsAfterLimiter(r, hdr, method, path) ==
    LET ip == clientIp(hdr)
        rl == checkRateLimit(ip, now, requestCounts)
    IN /\ IsFreeSlot(r)
       /\ method = "OPTIONS"
       /\ requestCounts' = rl.counts
       /\ req' = [req EXCEPT ![r] = Respond(Arrival(r, hdr, "OPTIONS", path),
                                            IF rl.ok THEN 204 ELSE 429)]
       /\ UNCHANGED <<now, elevenLabsFailCount, env, hist, inst, hook>>

\* if (req.method === "OPTIONS") return 204, before the rate limiter runs
FetchOptions(r, hdr, method, path) ==
    /\ IsFreeSlot(r)
    /\ method = "OPTIONS"
    /\ req' = [req EXCEPT ![r] = Respond(Arrival(r, hdr, "OPTIONS", path), 204)]
    /\ UNCHANGED <<now, requestCounts, elevenLabsFailCount, env, hist, inst, hook>>

\* if (!checkRateLimit(clientIp)) return 429
FetchRateLimited(r, hdr, method, path) ==
    LET ip == clientIp(hdr)
        rl == checkRateLimit(ip, now, requestCounts)
    IN /\ IsFreeSlot(r)
       /\ method # "OPTIONS"
       /\ ~rl.ok
       /\ requestCounts' = rl.counts
       /\ req' = [req EXCEPT ![r] = Respond(Arrival(r, hdr, method, path), 429)]
       /\ hist' = [hist EXCEPT !.win[ip] = Observe(@, now, FALSE),
                               !.atReset = AtReset(requestCounts, ip, now),
                               !.reopened = FALSE,
                               !.lastQuota = IF method = "POST" /\ path = "/notify"
                                             THEN FALSE ELSE @]
       /\ UNCHANGED <<now, elevenLabsFailCount, env, inst, hook>>

\* POST /notify, admitted: the handler awaits req.json()
FetchNotify(r, hdr) ==
    LET ip == clientIp(hdr)
        rl == checkRateLimit(ip, now, requestCounts)
    IN /\ IsFreeSlot(r)
       /\ rl.ok
       /\ requestCounts' = rl.counts
       /\ req' = [req EXCEPT ![r] =
                     [Arrival(r, hdr, "POST", "/notify") EXCEPT !.pc = "json"]]
       /\ hist' = [hist EXCEPT !.win[ip] = Observe(@, now, TRUE),
                               !.atReset = AtReset(requestCounts, ip, now),
                               !.reopened = Reopens(hist.win[ip], now)]
       /\ UNCHANGED <<now, elevenLabsFailCount, env, inst, hook>>

\* healthSnapshot had it reported the counter as zero
healthSnapshotNoCount(e, failCount) ==
    [status |-> "healthy",
     tts_provider |-> e.TTS_PROVIDER,
     elevenlabs |-> [available |-> e.ELEVENLABS_API_KEY, failCount |-> 0],
     piper |-> [available |-> e.piperModel],
     macos |-> [available |-> TRUE],
     chime_enabled |-> e.CHIME_ENABLED]

\* the JSON body of the /health response
healthSnapshot(e, failCount) ==
    [status |-> "healthy",
     tts_provider |-> e.TTS_PROVIDER,
     elevenlabs |-> [available |-> e.ELEVENLABS_API_KEY, failCount |-> failCount],
     piper |-> [available |-> e.piperModel],
     macos |-> [available |-> TRUE],
     chime_enabled |-> e.CHIME_ENABLED]

\* /health with any method but OPTIONS (and not POST /notify), admitted: 200
\* with the provider snapshot; any other path or method: the 200 banner
FetchPlain(r, hdr, method, path) ==
    LET ip == clientIp(hdr)
        rl == checkRateLimit(ip, now, requestCounts)
        arrived == Arrival(r, hdr, method, path)
        answered == IF path = "/health"
                    THEN [arrived EXCEPT
                            !.snapshot = healthSnapshot(env, elevenLabsFailCount)]
                    ELSE arrived
    IN /\ IsFreeSlot(r)
       /\ method # "OPTIONS"
       /\ ~(method = "POST" /\ path = "/notify")
       /\ rl.ok
       /\ requestCounts' = rl.counts
       /\ req' = [req EXCEPT ![r] = Respond(answered, 200)]
       /\ hist' = [hist EXCEPT !.win[ip] = Observe(@, now, TRUE),
                               !.atReset = AtReset(requestCounts, ip, now),
                               !.reopened = Reopens(hist.win[ip], now)]
       /\ UNCHANGED <<now, elevenLabsFailCount, env, inst, hook>>

\* Date.now() advances by d milliseconds
Tick(d) ==
    /\ (now % RATE_WINDOW) + (now \div RATE_WINDOW) < MaxTicks
    /\ now' = now + d
    /\ UNCHANGED <<requestCounts, elevenLabsFailCount, env, req, hist, inst, hook>>


(***************************************************************************)
(* POST /notify after req.json(): the synchronous prefix of the handler    *)
(* and of sendNotification                                                 *)
(***************************************************************************)
\* an Error's message, as its words
MsgIncludes(msg, word) == \E i \in DOMAIN msg : msg[i] = word

NoError == <<>>

\* The error thrown between req.json() and sendNotification's
\* "if (voiceEnabled)", or NoError: the voice_id check, the console.log that
\* calls message.substring, then the two validations.
notifyError(data) ==
    LET title == Or(data.title, Str(DEFAULT_TITLE))
        message == Or(data.message, Str(DEFAULT_MESSAGE))
        voiceId == Or(data.voice_id, data.voice_name)
        titleValidation == validateInput(title)
        messageValidation == validateInput(message)
    IN IF Truthy(voiceId) /\ voiceId.type # "string"
       THEN <<"Invalid", "voice_id">>
       ELSE IF message.type # "string"
       THEN <<"message.substring", "is", "not", "a", "function">>
       ELSE IF ~titleValidation.valid
       THEN <<"Invalid", "title:", titleValidation.error>>
       ELSE IF ~messageValidation.valid
       THEN <<"Invalid", "message:", messageValidation.error>>
       ELSE NoError

\* const voiceEnabled = data.voice_enabled !== false
voiceEnabledOf(data) == data.voice_enabled # Bool(FALSE)

\* status: error.message?.includes('Invalid') ? 400 : 500
errorStatus(msg) == IF MsgIncludes(msg, "Invalid") THEN 400 ELSE 500

(***************************************************************************)
(* Emotion markers and voice settings                                      *)
(***************************************************************************)
\* the emoji of the emotion table, each standing for one character
EMOJI_COLLISION == "emoji:collision"
EMOJI_PARTY == "emoji:party"
EMOJI_BULB == "emoji:bulb"
EMOJI_PALETTE == "emoji:palette"
EMOJI_SPARKLES == "emoji:sparkles"
EMOJI_CHART == "emoji:chart"
EMOJI_MAGNIFIER == "emoji:magnifier"
EMOJI_BUG == "emoji:bug"
EMOJI_BOOKS == "emoji:books"
EMOJI_THINKING == "emoji:thinking"
EMOJI_TARGET == "emoji:target"
EMOJI_WARNING == "emoji:warning"
EMOJI_SIREN == "emoji:siren"
Emojis ==
    {EMOJI_COLLISION, EMOJI_PARTY, EMOJI_BULB, EMOJI_PALETTE, 
     EMOJI_SPARKLES, EMOJI_CHART, EMOJI_MAGNIFIER, EMOJI_BUG, 
     EMOJI_BOOKS, EMOJI_THINKING, EMOJI_TARGET, EMOJI_WARNING, 
     EMOJI_SIREN}

\* the emotion names
EXCITED == <<"e", "x", "c", "i", "t", "e", "d">>
CELEBRATION == <<"c", "e", "l", "e", "b", "r", "a", "t", "i", "o", "n">>
INSIGHT == <<"i", "n", "s", "i", "g", "h", "t">>
CREATIVE == <<"c", "r", "e", "a", "t", "i", "v", "e">>
SUCCESS == <<"s", "u", "c", "c", "e", "s", "s">>
PROGRESS == <<"p", "r", "o", "g", "r", "e", "s", "s">>
INVESTIGATING == <<"i", "n", "v", "e", "s", "t", "i", "g", "a", "t", "i", "n", "g">>
DEBUGGING == <<"d", "e", "b", "u", "g", "g", "i", "n", "g">>
LEARNING == <<"l", "e", "a", "r", "n", "i", "n", "g">>
PONDERING == <<"p", "o", "n", "d", "e", "r", "i", "n", "g">>
FOCUSED == <<"f", "o", "c", "u", "s", "e", "d">>
CAUTION == <<"c", "a", "u", "t", "i", "o", "n">>
URGENT == <<"u", "r", "g", "e", "n", "t">>

\* emojiToEmotion
emojiToEmotion ==
    [e \in Emojis |->
        CASE e = EMOJI_COLLISION -> EXCITED
          [] e = EMOJI_PARTY -> CELEBRATION
          [] e = EMOJI_BULB -> INSIGHT
          [] e = EMOJI_PALETTE -> CREATIVE
          [] e = EMOJI_SPARKLES -> SUCCESS
          [] e = EMOJI_CHART -> PROGRESS
          [] e = EMOJI_MAGNIFIER -> INVESTIGATING
          [] e = EMOJI_BUG -> DEBUGGING
          [] e = EMOJI_BOOKS -> LEARNING
          [] e = EMOJI_THINKING -> PONDERING
          [] e = EMOJI_TARGET -> FOCUSED
          [] e = EMOJI_WARNING -> CAUTION
          [] e = EMOJI_SIREN -> URGENT]

\* a stability and a similarity boost, in hundredths
Settings(stability, similarity_boost) ==
    [stability |-> stability, similarity_boost |-> similarity_boost]

\* EMOTIONAL_PRESETS
EmotionNames == {emojiToEmotion[e] : e \in Emojis}
EMOTIONAL_PRESETS ==
    [n \in EmotionNames |->
        CASE n = EXCITED -> Settings(70, 90)
          [] n = CELEBRATION -> Settings(65, 85)
          [] n = INSIGHT -> Settings(55, 80)
          [] n = CREATIVE -> Settings(50, 75)
          [] n = SUCCESS -> Settings(60, 80)
          [] n = PROGRESS -> Settings(55, 75)
          [] n = INVESTIGATING -> Settings(60, 85)
          [] n = DEBUGGING -> Settings(55, 80)
          [] n = LEARNING -> Settings(50, 75)
          [] n = PONDERING -> Settings(65, 80)
          [] n = FOCUSED -> Settings(70, 85)
          [] n = CAUTION -> Settings(40, 60)
          [] n = URGENT -> Settings(30, 90)]

\* the length of the match of /\[(emoji)\s+(\w+)\]/ at index i of s, or 0
TagLen(s, i) ==
    IF i + 1 <= Len(s) /\ s[i] = "[" /\ s[i + 1] \in Emojis
    THEN LET w == RunLenIn(s, i + 2, WhiteSpace)
             l == RunLenIn(s, i + 2 + w, WordChars)
         IN IF /\ w >= 1 /\ l >= 1
               /\ i + 2 + w + l <= Len(s)
               /\ s[i + 2 + w + l] = "]"
            THEN 3 + w + l
            ELSE 0
    ELSE 0

\* message.match(...): the index of the leftmost match from i on, or 0
RECURSIVE FirstTag(_, _)
FirstTag(s, i) ==
    IF i > Len(s) THEN 0
    ELSE IF TagLen(s, i) > 0 THEN i
    ELSE FirstTag(s, i + 1)

\* extractEmotionalMarker had it taken the emoji's emotion whatever the label
extractEmotionalMarkerAnyLabel(message) ==
    LET i == FirstTag(message, 1)
    IN IF i = 0 THEN [cleaned |-> message, emotion |-> NoEmotion]
       ELSE [cleaned |->
                Trim(SubSeq(message, 1, i - 1)
                        \o Drop(message, i + TagLen(message, i))),
             emotion |-> emojiToEmotion[message[i + 1]]]

extractEmotionalMarker(message) ==
    LET i == FirstTag(message, 1)
    IN IF i = 0 THEN [cleaned |-> message, emotion |-> NoEmotion]
       ELSE LET n == TagLen(message, i)
                emoji == message[i + 1]
                w == RunLenIn(message, i + 2, WhiteSpace)
                label == SubSeq(message, i + 2 + w, i + n - 2)
                emotionName == [k \in 1..Len(label) |-> Lower(label[k])]
            IN IF emojiToEmotion[emoji] = emotionName
               THEN [cleaned |->
                        Trim(SubSeq(message, 1, i - 1) \o Drop(message, i + n)),
                     emotion |-> emotionName]
               ELSE [cleaned |-> message, emotion |-> NoEmotion]

\* voicesConfig when the file is missing or cannot be parsed: null
NoVoices == [loaded |-> FALSE, voices |-> <<>>]
\* voicesConfig parsed from a file with these profiles, in the file's order
Voices(profiles) == [loaded |-> TRUE, voices |-> profiles]
\* getVoiceConfig returns null
NoProfile == [key |-> <<>>]

\* a profile of voice-personalities.json under its key
Profile(key, voice_id, stability, similarity_boost) ==
    [key |-> key, voice_id |-> voice_id, stability |-> stability,
     similarity_boost |-> similarity_boost]

\* names every object inherits from Object.prototype
CONSTRUCTOR == <<"c", "o", "n", "s", "t", "r", "u", "c", "t", "o", "r">>
TO_STRING == <<"t", "o", "S", "t", "r", "i", "n", "g">>
VALUE_OF == <<"v", "a", "l", "u", "e", "O", "f">>
ObjectPrototypeKeys == {CONSTRUCTOR, TO_STRING, VALUE_OF}

\* what voices[identifier] is for such a name: a function of the runtime,
\* truthy, with no stability and no similarity_boost
PrototypeMember ==
    [key |-> <<"Object.prototype">>, voice_id |-> <<>>,
     stability |-> UndefinedSetting, similarity_boost |-> UndefinedSetting]

\* voices[identifier]: the own property, else the inherited one, else undefined
Lookup(voices, identifier) ==
    IF \E i \in 1..Len(voices) : voices[i].key = identifier
    THEN voices[CHOOSE i \in 1..Len(voices) : voices[i].key = identifier]
    ELSE IF identifier \in ObjectPrototypeKeys THEN PrototypeMember
    ELSE NoProfile

\* getVoiceConfig: null without a configuration, else voices[identifier] when
\* truthy, else the first profile in the file's order with that voice_id,
\* else null
getVoiceConfig(identifier, config) ==
    IF ~config.loaded THEN NoProfile
    ELSE IF Lookup(config.voices, identifier) # NoProfile
    THEN Lookup(config.voices, identifier)
    ELSE IF \E i \in 1..Len(config.voices) :
               config.voices[i].voice_id = identifier
    THEN config.voices[CHOOSE i \in 1..Len(config.voices) :
                   /\ config.voices[i].voice_id = identifier
                   /\ \A j \in 1..(i - 1) :
                         config.voices[j].voice_id # identifier]
    ELSE NoProfile

\* const voice = voiceId || DEFAULT_VOICE_ID, with
\* voiceId = data.voice_id || data.voice_name || null
voiceOf(data, e) ==
    LET voiceId == Or(data.voice_id, data.voice_name)
    IN IF Truthy(voiceId) THEN voiceId.s ELSE e.DEFAULT_VOICE_ID

DEFAULT_SETTINGS == Settings(50, 50)

\* sendNotification: the voiceSettings handed to generateSpeech
resolveVoiceSettings(emotion, voiceConfig) ==
    IF emotion # NoEmotion /\ emotion \in DOMAIN EMOTIONAL_PRESETS
    THEN EMOTIONAL_PRESETS[emotion]
    ELSE IF voiceConfig # NoProfile
    THEN Settings(voiceConfig.stability, voiceConfig.similarity_boost)
    ELSE DEFAULT_SETTINGS

\* sendNotification after both validations passed: safeMessage and emotion
afterExtraction(rec, data) ==
    LET message == Or(data.message, Str(DEFAULT_MESSAGE))
        marker == extractEmotionalMarker(validateInput(message).sanitized)
    IN [rec EXCEPT !.text = marker.cleaned, !.emotion = marker.emotion]

\* sendNotification inside "if (voiceEnabled)": voice and voiceSettings
afterResolution(rec, data, e) ==
    LET voice == voiceOf(data, e)
    IN [rec EXCEPT !.voice = voice,
                   !.voiceSettings =
                       resolveVoiceSettings(rec.emotion,
                                            getVoiceConfig(voice, e.voicesConfig))]

(***************************************************************************)
(* The provider cascade                                                    *)
(***************************************************************************)
\* buildProviders had it not looked at the counter
buildProvidersAnyCount(e, failCount) ==
    (IF e.TTS_PROVIDER = "elevenlabs" /\ e.ELEVENLABS_API_KEY
     THEN <<"elevenlabs">> ELSE <<>>)
    \o (IF e.TTS_PROVIDER # "macos" /\ e.piperModel THEN <<"piper">> ELSE <<>>)
    \o <<"macos">>

\* generateSpeech: the candidate list, from the configuration and the counter
buildProviders(e, failCount) ==
    (IF e.TTS_PROVIDER = "elevenlabs" /\ e.ELEVENLABS_API_KEY
        /\ failCount < ELEVENLABS_MAX_FAILS
     THEN <<"elevenlabs">> ELSE <<>>)
    \o (IF e.TTS_PROVIDER # "macos" /\ e.piperModel THEN <<"piper">> ELSE <<>>)
    \o <<"macos">>

\* where the request waits while the provider is at work
providerPc(provider) ==
    CASE provider = "elevenlabs" -> "el_fetch"
      [] provider = "piper" -> "piper"
      [] provider = "macos" -> "macos"

\* providerFormat had playAudio been left to its default format
providerFormatDefault(provider) == "mp3"

\* each provider's fixed output container
providerFormat(provider) ==
    CASE provider = "elevenlabs" -> "mp3"
      [] provider = "piper" -> "wav"
      [] provider = "macos" -> "aiff"

\* tryNext had the loop walked the list from its end
tryNextFromEnd(rec) ==
    LET provider == rec.providers[Len(rec.providers) - Len(rec.tried)]
    IN [rec EXCEPT !.tried = Append(@, provider), !.pc = providerPc(provider)]

\* the for loop reaches the candidate after those already tried and calls it
tryNext(rec) ==
    LET provider == rec.providers[Len(rec.tried) + 1]
    IN [rec EXCEPT !.tried = Append(@, provider), !.pc = providerPc(provider)]

\* generateSpeech is entered: the list is built and its first candidate called
startCascade(rec, e, failCount) ==
    tryNext([rec EXCEPT !.providers = buildProviders(e, failCount)])

\* catchTTSError had the catch thrown the error on to the handler
catchTTSErrorRethrown(rec) == Respond(rec, 500)

\* sendNotification's catch: the error is appended to error.log (the write is
\* taken to succeed), sendNotification returns and the handler answers 200
catchTTSError(rec) == Respond([rec EXCEPT !.logged = TRUE], 200)

\* a candidate failed: generateSpeech's catch, then the loop goes on, or, after
\* the last candidate, throws lastError to sendNotification
afterFailure(rec) ==
    LET caught == [rec EXCEPT !.outcomes = Append(@, "failed")]
    IN IF Len(caught.tried) < Len(caught.providers)
       THEN tryNext(caught)
       ELSE catchTTSError([caught EXCEPT !.failed = "synthesis"])

\* afterSuccess had playAudio been started without being awaited
afterSuccessNoAwait(rec, provider) ==
    Respond([rec EXCEPT !.outcomes = Append(@, "ok"), !.winner = provider,
                        !.format = providerFormat(provider), !.played = TRUE,
                        !.tempFile = "written"], 200)

\* a candidate returned audio: generateSpeech returns it with the provider's
\* format; playAudio writes the temporary file and starts the player
afterSuccess(rec, provider) ==
    [rec EXCEPT !.outcomes = Append(@, "ok"), !.winner = provider,
                !.format = providerFormat(provider), !.played = TRUE,
                !.tempFile = "written", !.pc = "play"]

\* how a spawned afplay ends: 'exit' with code 0 or another code, 'error'
\* alone when the process cannot be started, or 'error' followed by 'exit'
PlayerOutcomes == {"exit0", "exitN", "error", "error_exit"}

\* playAudio settled: the 'exit' handler spawns /bin/rm on the temporary file
\* and resolves or rejects by the code; the 'error' handler only rejects
afterPlayback(rec, outcome) ==
    LET removed == IF outcome = "error" THEN rec
                   ELSE [rec EXCEPT !.tempFile = "deleted"]
    IN IF outcome = "exit0" THEN Respond(removed, 200)
       ELSE catchTTSError([removed EXCEPT !.failed = "playback"])

\* beginVoice had the chime been started without being awaited
beginVoiceNoAwait(rec, e, failCount) ==
    startCascade([rec EXCEPT !.chimed = e.CHIME_ENABLED /\ e.chimeFile],
                 e, failCount)

\* the voice section up to its first await: playChime, whose promise is
\* awaited whether or not it starts the player, or generateSpeech
beginVoice(rec, e, failCount) ==
    IF e.CHIME_ENABLED
    THEN [rec EXCEPT !.pc = "chime", !.chimed = e.chimeFile]
    ELSE startCascade(rec, e, failCount)

\* how await playChime() ends: the player's outcome, or "skipped" when
\* playChime returned without starting it
ChimeOutcomes(rec) == IF rec.chimed THEN PlayerOutcomes ELSE {"skipped"}

\* afterChime had a chime that fails rejected the promise
afterChimeRejecting(rec, outcome, e, failCount) ==
    IF outcome \in {"exit0", "skipped"}
    THEN startCascade([rec EXCEPT !.chimeEnd = outcome], e, failCount)
    ELSE catchTTSError([rec EXCEPT !.chimeEnd = outcome])

\* afterChime had playChime's promise been left unsettled on 'error'
afterChimeHanging(rec, outcome, e, failCount) ==
    IF outcome = "error"
    THEN [rec EXCEPT !.chimeEnd = outcome, !.pc = "hung"]
    ELSE startCascade([rec EXCEPT !.chimeEnd = outcome], e, failCount)

\* playChime's promise resolves on 'error' as on 'exit', with any code;
\* generateSpeech is entered
afterChime(rec, outcome, e, failCount) ==
    startCascade([rec EXCEPT !.chimeEnd = outcome], e, failCount)


(***************************************************************************)
(* generateSpeechElevenLabs                                                *)
(***************************************************************************)
\* the statuses the cloud API answers with; 0 stands for a fetch that rejects
ElStatuses == {200, 401, 429, 0}

\* the error bodies the cloud API answers with, as their words
ElErrorTexts == {<<"quota", "exceeded">>, <<"rate", "limit">>, <<"unauthorized">>}

\* response.status === 429 || errorText.includes('quota') || errorText.includes('limit')
isQuotaSignal(status, errorText) ==
    status = 429 \/ MsgIncludes(errorText, "quota") \/ MsgIncludes(errorText, "limit")

\* failCountAfterError had a quota signal left the counter alone
failCountAfterErrorNoTrip(status, errorText, failCount) == failCount

\* the counter after a response that is not ok
failCountAfterError(status, errorText, failCount) ==
    IF isQuotaSignal(status, errorText) THEN ELEVENLABS_MAX_FAILS ELSE failCount

\* failCountAfterSuccess had a success left the counter alone
failCountAfterSuccessKept(failCount) == failCount

\* the counter after a response that is ok: "Reset on success"
failCountAfterSuccess(failCount) == 0

\* failCountAfterCatch had the catch not counted the failure
failCountAfterCatchNoCount(failCount) == failCount

\* the counter after generateSpeech caught the cloud provider's error
failCountAfterCatch(failCount) == failCount + 1

\* what the history keeps of a step that leaves request r as rec
HistAfter(h, rec) ==
    IF rec.pc = "responded" THEN [h EXCEPT !.lastQuota = rec.quota] ELSE h

\* The temporary files named in the step that takes a request from old to
\* rec at Date.now() = t: generateSpeechPiper and generateSpeechMacOS name
\* their output file when they are called, playAudio when it is called.
withTempNames(old, rec, t) ==
    LET called == rec.tried # old.tried
        synth == IF called /\ rec.pc = "piper" THEN TempName("piper", t, "wav")
                 ELSE IF called /\ rec.pc = "macos" THEN TempName("say", t, "aiff")
                 ELSE rec.synthName
        play == IF rec.played /\ ~old.played THEN TempName("voice", t, rec.format)
                ELSE rec.playName
    IN [rec EXCEPT !.synthName = synth, !.playName = play]

(***************************************************************************)
(* The steps of an admitted POST /notify                                   *)
(***************************************************************************)
\* req.json() resolved with data: the handler runs to its response, or to the
\* first await of the voice path
JsonResolved(r, data) ==
    LET rec == [req[r] EXCEPT !.body = data]
        err == notifyError(data)
        marked == afterExtraction(rec, data)
        next == IF err # NoError THEN Respond(rec, errorStatus(err))
                ELSE IF ~voiceEnabledOf(data) THEN Respond(marked, 200)
                ELSE beginVoice(afterResolution(marked, data, env), env,
                                elevenLabsFailCount)
    IN /\ req[r].pc = "json"
       /\ req' = [req EXCEPT ![r] = withTempNames(req[r], next, now)]
       /\ hist' = HistAfter(hist, next)
       /\ UNCHANGED <<now, requestCounts, elevenLabsFailCount, env, inst, hook>>

\* await playChime() is over: afplay exited or could not start, or playChime
\* returned at once because the chime file is missing
ChimeDone(r, outcome) ==
    LET next == afterChime(req[r], outcome, env, elevenLabsFailCount)
    IN /\ req[r].pc = "chime"
       /\ outcome \in ChimeOutcomes(req[r])
       /\ req' = [req EXCEPT ![r] = withTempNames(req[r], next, now)]
       /\ hist' = HistAfter(hist, next)
       /\ UNCHANGED <<now, requestCounts, elevenLabsFailCount, env, inst, hook>>

\* await fetch(url) is over
ElFetchDone(r, status) ==
    /\ req[r].pc = "el_fetch"
    /\ IF status = 200
       THEN /\ elevenLabsFailCount' = failCountAfterSuccess(elevenLabsFailCount)
            /\ req' = [req EXCEPT ![r].pc = "el_body"]
            /\ hist' = [hist EXCEPT !.resetFrom = elevenLabsFailCount,
                                    !.streak = 0]
       ELSE /\ elevenLabsFailCount' = elevenLabsFailCount
            /\ hist' = hist
            /\ req' = IF status = 0
                      THEN [req EXCEPT ![r].pc = "el_catch"]
                      ELSE [req EXCEPT ![r].pc = "el_text", ![r].elStatus = status]
    /\ UNCHANGED <<now, requestCounts, env, inst, hook>>

\* await response.text() of a response that is not ok is over; the error is
\* thrown to generateSpeech
ElTextDone(r, errorText) ==
    LET quota == isQuotaSignal(req[r].elStatus, errorText)
    IN /\ req[r].pc = "el_text"
       /\ elevenLabsFailCount' =
              failCountAfterError(req[r].elStatus, errorText, elevenLabsFailCount)
       /\ req' = [req EXCEPT ![r].pc = "el_catch", ![r].elStatus = 0,
                             ![r].quota = quota]
       /\ hist' = [hist EXCEPT !.quotaEver = @ \/ quota]
       /\ UNCHANGED <<now, requestCounts, env, inst, hook>>

\* await response.arrayBuffer() of a response that is ok is over
ElBodyDone(r, ok) ==
    /\ req[r].pc = "el_body"
    /\ req' = [req EXCEPT ![r] =
                  IF ok THEN withTempNames(@, afterSuccess(@, "elevenlabs"), now)
                  ELSE [@ EXCEPT !.pc = "el_catch"]]
    /\ UNCHANGED <<now, requestCounts, elevenLabsFailCount, env, hist, inst, hook>>

\* generateSpeech catches the cloud provider's error
ElCatch(r) ==
    LET next == afterFailure(req[r])
    IN /\ req[r].pc = "el_catch"
       /\ elevenLabsFailCount' = failCountAfterCatch(elevenLabsFailCount)
       /\ req' = [req EXCEPT ![r] = withTempNames(req[r], next, now)]
       /\ hist' = HistAfter([hist EXCEPT !.streak = @ + 1], next)
       /\ UNCHANGED <<now, requestCounts, env, inst, hook>>

\* the piper process exited (ok: code 0 and its output file was read)
PiperDone(r, ok) ==
    LET next == IF ok THEN afterSuccess(req[r], "piper") ELSE afterFailure(req[r])
    IN /\ req[r].pc = "piper"
       /\ req' = [req EXCEPT ![r] = withTempNames(req[r], next, now)]
       /\ hist' = HistAfter(hist, next)
       /\ UNCHANGED <<now, requestCounts, elevenLabsFailCount, env, inst, hook>>

\* the say process exited (ok: code 0 and its output file was read)
MacosDone(r, ok) ==
    LET next == IF ok THEN afterSuccess(req[r], "macos") ELSE afterFailure(req[r])
    IN /\ req[r].pc = "macos"
       /\ req' = [req EXCEPT ![r] = withTempNames(req[r], next, now)]
       /\ hist' = HistAfter(hist, next)
       /\ UNCHANGED <<now, requestCounts, elevenLabsFailCount, env, inst, hook>>

\* PlayDone had the players been queued: a playback ends only after those of
\* the slots before it
PlayDoneQueued(r, outcome) ==
    LET next == afterPlayback(req[r], outcome)
    IN /\ req[r].pc = "play"
       /\ \A q \in 1..(r - 1) : req[q].pc # "play"
       /\ req' = [req EXCEPT ![r] = withTempNames(req[r], next, now)]
       /\ hist' = HistAfter(hist, next)
       /\ UNCHANGED <<now, requestCounts, elevenLabsFailCount, env, inst, hook>>

\* playAudio settled; a failure is caught by sendNotification and appended to
\* error.log; the handler answers 200
PlayDone(r, outcome) ==
    LET next == afterPlayback(req[r], outcome)
    IN /\ req[r].pc = "play"
       /\ req' = [req EXCEPT ![r] = withTempNames(req[r], next, now)]
       /\ hist' = HistAfter(hist, next)
       /\ UNCHANGED <<now, requestCounts, elevenLabsFailCount, env, inst, hook>>


(***************************************************************************)
(* The installation wizard (Bundles/Kai/install.ts).  The file system is   *)
(* ~/.claude and ~/.claude-BACKUP, each absent or a directory that gives   *)
(* every file name the state of that file.  An action is one stretch of    *)
(* main() between two awaits: a prompt answered or a command ended.        *)
(***************************************************************************)
\* the directory does not exist
Absent == [exists |-> FALSE]

\* the files of a directory the model follows
FileNames == {".env", "settings.json"}

\* a directory with the given state of each file; "none" is no such file
Dir(files) == [exists |-> TRUE, files |-> files]

\* askYesNo: the trimmed answer; empty gives the default, else yes when it
\* starts with "y" in either case
askYesNo(answer, defaultYes) ==
    IF answer = <<>> THEN defaultYes ELSE Lower(answer[1]) = "y"

\* detectAndBackup returned false: main prints and calls process.exit(1)
installCancelled(st) == [st EXCEPT !.pc = "exit", !.code = 1, !.declined = TRUE]

\* a command or a write threw: the catch of main calls process.exit(1)
installFailed(st) == [st EXCEPT !.pc = "exit", !.code = 1]

\* main() starts: detectAndBackup runs without an await up to its first prompt
InstallStart(claude, backup) ==
    /\ inst = NotStarted
    /\ inst' = [pc |-> IF ~claude.exists THEN "ask_fresh"
                       ELSE IF backup.exists THEN "ask_overwrite"
                       ELSE "ask_proceed",
                claude |-> claude, backup |-> backup,
                start |-> [claude |-> claude, backup |-> backup],
                declined |-> FALSE, proceed |-> FALSE, copied |-> FALSE,
                code |-> -1]
    /\ UNCHANGED <<server, hook>>

\* "Ready to install Kai to ~/.claude. Proceed?" [Y/n]
AnswerFresh(answer) ==
    /\ inst.pc = "ask_fresh"
    /\ inst' = IF askYesNo(answer, TRUE)
               THEN [inst EXCEPT !.pc = "config", !.proceed = TRUE]
               ELSE installCancelled(inst)
    /\ UNCHANGED <<server, hook>>

\* "Overwrite existing backup?" [y/N]; yes starts rm -rf of the backup
AnswerOverwrite(answer) ==
    /\ inst.pc = "ask_overwrite"
    /\ inst' = IF askYesNo(answer, FALSE)
               THEN [inst EXCEPT !.pc = "rm"]
               ELSE installCancelled(inst)
    /\ UNCHANGED <<server, hook>>

\* await $`rm -rf ${backupDir}` is over; a failed command throws
RmDone(ok) ==
    /\ inst.pc = "rm"
    /\ inst' = IF ok
               THEN [inst EXCEPT !.pc = "ask_proceed", !.backup = Absent]
               ELSE installFailed(inst)
    /\ UNCHANGED <<server, hook>>

\* "Do you want to proceed with the backup and installation?" [Y/n]; yes
\* starts cp -r
AnswerProceed(answer) ==
    /\ inst.pc = "ask_proceed"
    /\ inst' = IF askYesNo(answer, TRUE)
               THEN [inst EXCEPT !.pc = "cp", !.proceed = TRUE]
               ELSE installCancelled(inst)
    /\ UNCHANGED <<server, hook>>

\* what cp -r has put at ~/.claude-BACKUP when it copied these files
copyOf(dir, copied) ==
    Dir([f \in FileNames |-> IF f \in copied THEN dir.files[f] ELSE "none"])

\* the end of cp -r had the command been run with nothrow()
cpDoneNoThrow(st, copied) ==
    [st EXCEPT !.pc = "config", !.backup = copyOf(st.claude, copied),
               !.copied = TRUE]

\* the end of cp -r: it copied everything, or it failed part way and threw
cpDone(st, copied) ==
    IF copied = FileNames
    THEN [st EXCEPT !.pc = "config", !.backup = copyOf(st.claude, copied),
                    !.copied = TRUE]
    ELSE installFailed([st EXCEPT !.backup = copyOf(st.claude, copied)])

\* await $`cp -r ${claudeDir} ${backupDir}` is over
CpDone(copied) ==
    /\ inst.pc = "cp"
    /\ inst' = cpDone(inst, copied)
    /\ UNCHANGED <<server, hook>>

\* gatherConfig: the questions are answered, nothing is written
ConfigDone ==
    /\ inst.pc = "config"
    /\ inst' = [inst EXCEPT !.pc = "mkdir"]
    /\ UNCHANGED <<server, hook>>

\* the mkdir -p commands are over
MkdirDone(ok) ==
    /\ inst.pc = "mkdir"
    /\ inst' = IF ok
               THEN [inst EXCEPT !.pc = "generate",
                        !.claude = IF @.exists THEN @
                                   ELSE Dir([f \in FileNames |-> "none"])]
               ELSE installFailed(inst)
    /\ UNCHANGED <<server, hook>>

\* the generated files and .env are written
GenerateDone(ok) ==
    /\ inst.pc = "generate"
    /\ inst' = IF ok
               THEN [inst EXCEPT !.pc = "bundle", !.claude.files[".env"] = "kai"]
               ELSE installFailed(inst)
    /\ UNCHANGED <<server, hook>>

\* copyBundleFiles up to the end of main: settings.json is merged into an
\* existing file, else it is the template
BundleDone(ok) ==
    /\ inst.pc = "bundle"
    /\ inst' = IF ok
               THEN [inst EXCEPT !.pc = "exit", !.code = 0,
                        !.claude.files["settings.json"] =
                            IF @ = "none" THEN "kai" ELSE "merged"]
               ELSE installFailed(inst)
    /\ UNCHANGED <<server, hook>>

(***************************************************************************)
(* mergeSettings.  A settings file is absent, unparseable, or a JSON object *)
(* with "env" (a map) and "hooks": a map from hook type to a list of        *)
(* configs, each with a matcher and a list of hooks given by their command. *)
(***************************************************************************)
Config(matcher, commands) == [matcher |-> matcher, hooks |-> commands]

SettingsFile(variables, hooks) ==
    [kind |-> "json", env |-> variables, hooks |-> hooks]
NoSettingsFile == [kind |-> "absent", env |-> <<>>, hooks |-> <<>>]
Unparseable == [kind |-> "corrupt", env |-> <<>>, hooks |-> <<>>]

\* { ...a, ...b }
Spread(a, b) == [k \in DOMAIN a \cup DOMAIN b |-> IF k \in DOMAIN b THEN b[k] ELSE a[k]]

\* existingSettings.hooks[hookType].flatMap(h => h.hooks?.map(hh => hh.command) || [])
existingCommands(configs) ==
    UNION {{configs[i].hooks[j] : j \in 1..Len(configs[i].hooks)} :
              i \in 1..Len(configs)}

\* config.hooks?.some(h => !existingCommands.has(h.command))
hasNew(config, commands) ==
    \E j \in 1..Len(config.hooks) : config.hooks[j] \notin commands

\* the loop over Object.entries(bundleSettings.hooks)
mergeHooks(existing, bundle) ==
    [hookType \in DOMAIN existing \cup DOMAIN bundle |->
        IF hookType \notin DOMAIN bundle THEN existing[hookType]
        ELSE IF hookType \notin DOMAIN existing THEN bundle[hookType]
        ELSE existing[hookType]
                \o SelectSeq(bundle[hookType],
                             LAMBDA config :
                                hasNew(config, existingCommands(existing[hookType])))]

\* the content of the target file after mergeSettings(bundle, target)
mergeSettings(bundle, target) ==
    IF target.kind = "json"
    THEN SettingsFile(Spread(target.env, bundle.env),
                      mergeHooks(target.hooks, bundle.hooks))
    ELSE bundle

\* the installer reaches mergeSettings with the bundle's template and the
\* settings.json it finds
MergeStart(bundle, target) ==
    /\ inst = NotStarted
    /\ inst' = [pc |-> "merge", bundle |-> bundle, target |-> target,
                before |-> target, runs |-> 0]
    /\ UNCHANGED <<server, hook>>

\* mergeSettings runs on the file the previous run left
MergeSettings ==
    /\ inst.pc = "merge"
    /\ inst.runs < MaxRuns
    /\ inst' = [inst EXCEPT !.target = mergeSettings(inst.bundle, @),
                            !.before = inst.target,
                            !.runs = @ + 1]
    /\ UNCHANGED <<server, hook>>

(***************************************************************************)
(* The completion hooks (hooks/stop-hook-voice.ts, hooks/                  *)
(* update-tab-titles.ts).  A text is a sequence of lines, a line a         *)
(* sequence of words, a word a string; white space is what separates the   *)
(* words.                                                                  *)
(***************************************************************************)
\* a line of assistant text: its marker label ("COMPLETED", "Done" or "none"),
\* whether it is a markdown heading, and the words after the label or the
\* heading marks
Line(label, heading, words) ==
    [label |-> label, heading |-> heading, words |-> words]

\* a tool-invocation block of the given tool with the given target path and
\* caller-supplied description (either may be empty)
Tool(name, path, description) ==
    [type |-> "tool", name |-> name, path |-> path, description |-> description]

\* an assistant record with the given text
Assistant(lines) == [type |-> "assistant", lines |-> lines]

\* the number of characters of the words joined by single blanks
RECURSIVE CharLen(_)
CharLen(words) ==
    IF words = <<>> THEN 0
    ELSE Len(Head(words)) + (IF Len(words) > 1 THEN 1 ELSE 0)
            + CharLen(Tail(words))

\* one of the keywords occurs in one of the words, in any letter case
HasKeyword(words, keywords) ==
    \E n \in 1..Len(words), k \in keywords :
       \E i \in 1..Len(words[n]) : MatchesAtCI(words[n], i, k)

\* the sequence without the later occurrences of its elements
RECURSIVE Dedupe(_)
Dedupe(s) ==
    IF s = <<>> THEN <<>>
    ELSE LET rest == Dedupe(SubSeq(s, 1, Len(s) - 1))
             last == s[Len(s)]
         IN IF \E i \in 1..Len(rest) : rest[i] = last
            THEN rest ELSE Append(rest, last)

\* the verbs of the tool descriptions
MODIFIED == <<"M", "o", "d", "i", "f", "i", "e", "d">>
CREATED == <<"C", "r", "e", "a", "t", "e", "d">>
READ == <<"R", "e", "a", "d">>
SEARCHED == <<"S", "e", "a", "r", "c", "h", "e", "d">>

\* the heading names of rule 2, in lower case
SummaryHeadings == {<<"s", "u", "m", "m", "a", "r", "y">>, <<"d", "o", "n", "e">>, <<"c", "o", "m", "p", "l", "e", "t", "e">>}

\* action verbs of rule 3 (of about seventy)
ActionVerbs ==
    {<<"F", "i", "x", "e", "d">>,
     <<"C", "r", "e", "a", "t", "e", "d">>,
     <<"A", "d", "d", "e", "d">>,
     <<"U", "p", "d", "a", "t", "e", "d">>,
     <<"I", "n", "s", "t", "a", "l", "l", "e", "d">>,
     <<"C", "o", "n", "f", "i", "g", "u", "r", "e", "d">>,
     <<"R", "e", "m", "o", "v", "e", "d">>,
     <<"R", "e", "f", "a", "c", "t", "o", "r", "e", "d">>,
     <<"B", "u", "i", "l", "t">>,
     <<"I", "m", "p", "l", "e", "m", "e", "n", "t", "e", "d">>,
     <<"R", "e", "s", "o", "l", "v", "e", "d">>,
     <<"C", "o", "m", "p", "l", "e", "t", "e", "d">>}

\* prepositions of rule 5
Prepositions == {<<"a", "b", "o", "u", "t">>,
     <<"r", "e", "g", "a", "r", "d", "i", "n", "g">>,
     <<"f", "o", "r">>, <<"w", "i", "t", "h">>, <<"t", "h", "e">>}

\* filler openers of rule 6
FillerOpeners == {<<"Y", "e", "s">>, <<"N", "o">>, <<"S", "u", "r", "e">>,
     <<"O", "k">>, <<"H", "e", "r", "e">>, <<"L", "e", "t">>}

\* markup that speech cleaning removes
MarkupWords == {<<"*", "*">>, <<"#">>, <<EMOJI_TARGET>>}

\* the description of a tool call by the fixed table, empty when it has none
toolDescription(tool) ==
    LET basename == tool.path[Len(tool.path)]
    IN CASE tool.name = "edit-file" ->
              IF tool.path = <<>> THEN <<>> ELSE <<MODIFIED, basename>>
         [] tool.name = "write-file" ->
              IF tool.path = <<>> THEN <<>> ELSE <<CREATED, basename>>
         [] tool.name = "run-command" -> tool.description
         [] tool.name = "read-file" ->
              IF tool.path = <<>> THEN <<>> ELSE <<READ, basename>>
         [] tool.name \in {"file-glob", "text-search"} ->
              <<SEARCHED, <<"c", "o", "d", "e", "b", "a", "s", "e">>>>
         [] tool.name = "spawn-task" ->
              IF tool.description = <<>>
              THEN <<<<"R", "a", "n">>, <<"s", "u", "b", "a", "g", "e", "n", "t">>, <<"t", "a", "s", "k">>>>
              ELSE tool.description
         [] tool.name \in {"web-fetch", "web-search"} ->
              <<SEARCHED, <<"t", "h", "e">>, <<"w", "e", "b">>>>
         [] OTHER -> <<>>

\* the window's last non-empty assistant text
RECURSIVE lastText(_)
lastText(window) ==
    IF window = <<>> THEN <<>>
    ELSE LET e == window[Len(window)]
         IN IF e.type = "assistant" /\ e.lines # <<>> THEN e.lines
            ELSE lastText(SubSeq(window, 1, Len(window) - 1))

\* the descriptions of the window's tool calls, in order of appearance
RECURSIVE toolCalls(_)
toolCalls(window) ==
    IF window = <<>> THEN <<>>
    ELSE (IF Head(window).type = "tool" /\ toolDescription(Head(window)) # <<>>
          THEN <<toolDescription(Head(window))>> ELSE <<>>)
            \o toolCalls(Tail(window))

\* an agent tag such as [AGENT:kai]
IsAgentTag(w) ==
    /\ Len(w) >= 2 /\ w[1] = "[" /\ w[Len(w)] = "]"
    /\ MatchesAt(w, 2, <<"A", "G", "E", "N", "T", ":">>)

\* the words without a leading agent tag
stripAgentTag(words) ==
    IF words # <<>> /\ IsAgentTag(words[1]) THEN Tail(words) ELSE words

\* the least of a set of indices, or 0 when there is none
FirstOf(indices) ==
    IF indices = {} THEN 0
    ELSE CHOOSE i \in indices : \A j \in indices : i <= j

\* rule 1: the remainder of the first line with a "COMPLETED:" or "Done:"
\* label and something after it, without a leading agent tag
byMarker(lines) ==
    LET Marked(l) == l.label \in {"COMPLETED", "Done"} /\ l.words # <<>>
        i == FirstOf({n \in 1..Len(lines) : Marked(lines[n])})
    IN IF i = 0 THEN <<>> ELSE stripAgentTag(lines[i].words)

\* rule 2: the first non-empty line that is not a heading after a heading
\* named Summary, Done or Complete
bySummary(lines) ==
    LET Heading(l) ==
           /\ l.heading /\ Len(l.words) = 1
           /\ \E h \in SummaryHeadings : MatchesAtCI(l.words[1], 1, h)
                                         /\ Len(h) = Len(l.words[1])
        Content(l) == ~l.heading /\ l.words # <<>>
        i == FirstOf({n \in 1..Len(lines) : Heading(lines[n])})
        j == IF i = 0 THEN 0
             ELSE FirstOf({n \in (i + 1)..Len(lines) : Content(lines[n])})
    IN IF j = 0 THEN <<>> ELSE lines[j].words

\* rule 3: the first line that begins with an action verb followed by 5 to 80
\* characters
byActionVerb(lines) ==
    LET Action(l) ==
           /\ l.label = "none" /\ ~l.heading /\ l.words # <<>>
           /\ l.words[1] \in ActionVerbs
           /\ CharLen(Tail(l.words)) >= 5 /\ CharLen(Tail(l.words)) <= 80
        i == FirstOf({n \in 1..Len(lines) : Action(lines[n])})
    IN IF i = 0 THEN <<>> ELSE lines[i].words

\* the descriptions of file modifications among the tool calls, once each
modifications(tools) ==
    SelectSeq(Dedupe(tools), LAMBDA d : d[1] \in {MODIFIED, CREATED})

\* several descriptions in one: up to three files of the first one's verb when
\* two or more share it, else the first two joined by "and"
combine(descs) ==
    LET same == SelectSeq(descs, LAMBDA d : d[1] = descs[1][1] /\ Len(d) = 2)
        verb == descs[1][1]
        and == <<"a", "n", "d">>
    IN IF Len(descs) = 1 THEN descs[1]
       ELSE IF verb \in {MODIFIED, CREATED} /\ Len(same) = 2
       THEN <<verb, same[1][2], and, same[2][2]>>
       ELSE IF verb \in {MODIFIED, CREATED} /\ Len(same) >= 3
       THEN <<verb, same[1][2] \o <<",">>, same[2][2] \o <<",">>, and,
              same[3][2]>>
       ELSE descs[1] \o <<and>> \o descs[2]

\* rule 4: the tool calls other than reads and searches, combined; the last
\* tool call when there are only reads and searches
byTools(tools) ==
    LET kept == SelectSeq(Dedupe(tools), LAMBDA d : d[1] \notin {READ, SEARCHED})
    IN IF kept # <<>> THEN combine(kept)
       ELSE IF tools # <<>> THEN tools[Len(tools)]
       ELSE <<>>

\* rule 5: without file modifications, the words after the first preposition
\* of the first line that holds a question mark
byQuestion(lines, tools) ==
    LET Asks(l) == HasKeyword(l.words, {<<"?">>})
        i == FirstOf({n \in 1..Len(lines) : Asks(lines[n])})
        words == IF i = 0 THEN <<>> ELSE lines[i].words
        at == {n \in 1..Len(words) : words[n] \in Prepositions}
    IN IF i = 0 \/ modifications(tools) # <<>> \/ at = {} THEN <<>>
       ELSE Drop(words, 1 + FirstOf(at))

\* rule 6: the first line of more than 15 characters that does not start with
\* a filler opener
bySentence(lines) ==
    LET Meaningful(l) ==
           /\ ~l.heading /\ l.words # <<>>
           /\ CharLen(l.words) > 15
           /\ l.words[1] \notin FillerOpeners
        i == FirstOf({n \in 1..Len(lines) : Meaningful(lines[n])})
    IN IF i = 0 THEN <<>> ELSE lines[i].words

\* the cascade: the first rule with a non-empty result
cascade(lines, tools) ==
    IF byMarker(lines) # <<>> THEN byMarker(lines)
    ELSE IF bySummary(lines) # <<>> THEN bySummary(lines)
    ELSE IF byActionVerb(lines) # <<>> THEN byActionVerb(lines)
    ELSE IF byTools(tools) # <<>> THEN byTools(tools)
    ELSE IF byQuestion(lines, tools) # <<>> THEN byQuestion(lines, tools)
    ELSE bySentence(lines)

\* speech cleaning and truncation: no markup, no agent tags, ten words at most
cleanForSpeech(words) ==
    Substring0(SelectSeq(words, LAMBDA w : w \notin MarkupWords /\ ~IsAgentTag(w)),
               10)

\* extractCompletion: the cascade, overridden by the file modifications when
\* its result has fewer than 10 characters, then cleaned
extractCompletion(lines, tools) ==
    LET found == cascade(lines, tools)
        mods == modifications(tools)
    IN cleanForSpeech(IF mods # <<>> /\ CharLen(found) < 10
                      THEN combine(mods) ELSE found)

\* a rule of the categorization: its category, the keywords it looks for in
\* the description and the keywords it looks for in the tool calls
Rule(category, inText, inTools) ==
    [category |-> category, inText |-> inText, inTools |-> inTools]

\* the rules in their order
CategoryRules ==
    <<Rule("Bug fixed", {<<"f", "i", "x">>, <<"p", "a", "t", "c", "h">>,
            <<"d", "e", "b", "u", "g">>,
            <<"r", "e", "s", "o", "l", "v">>}, {}),
      Rule("Feature added",
           {<<"a", "d", "d">>, <<"c", "r", "e", "a", "t", "e">>,
            <<"i", "m", "p", "l", "e", "m", "e", "n", "t">>,
            <<"b", "u", "i", "l", "t">>, <<"n", "e", "w">>}, {}),
      Rule("Question answered",
           {<<"e", "x", "p", "l", "a", "i", "n">>,
            <<"a", "n", "s", "w", "e", "r">>,
            <<"d", "e", "s", "c", "r", "i", "b", "e">>,
            <<"w", "h", "a", "t">>, <<"w", "h", "y">>, <<"h", "o", "w">>}, {}),
      Rule("Config changed", {<<"c", "o", "n", "f", "i", "g">>,
            <<"s", "e", "t", "t", "i", "n", "g">>, <<"e", "n", "v">>},
           {<<".", "e", "n", "v">>, <<".", "j", "s", "o", "n">>,
            <<".", "y", "a", "m", "l">>, <<".", "y", "m", "l">>,
            <<".", "t", "o", "m", "l">>, <<".", "i", "n", "i">>}),
      Rule("Search complete", {}, {<<"s", "e", "a", "r", "c", "h">>, <<"g", "r", "e", "p">>,
            <<"g", "l", "o", "b">>, <<"w", "e", "b">>}),
      Rule("Code updated", {}, {<<"m", "o", "d", "i", "f", "i", "e", "d">>,
            <<"c", "r", "e", "a", "t", "e", "d">>,
            <<"e", "d", "i", "t">>, <<"w", "r", "i", "t", "e">>}),
      Rule("Analysis complete",
           {<<"a", "n", "a", "l", "y", "z">>,
            <<"r", "e", "s", "e", "a", "r", "c", "h">>,
            <<"i", "n", "v", "e", "s", "t", "i", "g", "a", "t">>,
            <<"e", "x", "p", "l", "o", "r">>,
            <<"r", "e", "v", "i", "e", "w">>}, {})>>

\* the category when no rule matches
DEFAULT_CATEGORY == "Task completed"

\* the rule finds one of its keywords
ruleMatches(rule, description, tools) ==
    \/ HasKeyword(description, rule.inText)
    \/ HasKeyword(Flatten(tools), rule.inTools)

\* the category of the first rule from the i-th on that matches
RECURSIVE firstMatch(_, _, _, _)
firstMatch(rules, i, description, tools) ==
    IF i > Len(rules) THEN DEFAULT_CATEGORY
    ELSE IF ruleMatches(rules[i], description, tools) THEN rules[i].category
    ELSE firstMatch(rules, i + 1, description, tools)

\* categorizeCompletion had the feature rule been put before the bug-fix rule
categorizeCompletionFeatureFirst(description, tools) ==
    firstMatch(<<CategoryRules[2], CategoryRules[1]>>
                  \o SubSeq(CategoryRules, 3, Len(CategoryRules)),
               1, description, tools)

\* categorizeCompletion
categorizeCompletion(description, tools) ==
    firstMatch(CategoryRules, 1, description, tools)

\* the sessions whose hooks run
Sessions == {"s1", "s2"}

\* there is no marker file of the session
NoMarker == -1

\* no completion hook has run yet
NoRun == [session |-> "none"]

\* the stop hook had it read the marker file and left it in place
readMarkerKept(markers, s, t) ==
    IF markers[s] = NoMarker
    THEN [found |-> FALSE, duration |-> 0, markers |-> markers]
    ELSE [found |-> TRUE, duration |-> t - markers[s], markers |-> markers]

\* the stop hook reads the marker file of the session at time t and deletes
\* it; without a marker the duration is zero
readMarker(markers, s, t) ==
    IF markers[s] = NoMarker
    THEN [found |-> FALSE, duration |-> 0, markers |-> markers]
    ELSE [found |-> TRUE, duration |-> t - markers[s],
          markers |-> [markers EXCEPT ![s] = NoMarker]]

\* the completion hooks have not run: the clock, the marker file of each
\* session, the stop-hook runs of each session since its last prompt (counted
\* up to two) and the last stop-hook run
NoHook ==
    [clock |-> 0, markers |-> [s \in Sessions |-> NoMarker],
     since |-> [s \in Sessions |-> 0], last |-> NoRun]

\* the prompt hook: the user's prompt is accepted and the marker file of the
\* session written with the time
PromptSubmit(s) ==
    /\ hook' = [hook EXCEPT !.markers[s] = hook.clock, !.since[s] = 0]
    /\ UNCHANGED <<server, inst>>

\* time passes between two hook runs
HookTick ==
    /\ hook.clock < MaxTicks
    /\ hook' = [hook EXCEPT !.clock = @ + 1]
    /\ UNCHANGED <<server, inst>>

\* the stop hook runs for the session on the turn window of its transcript
StopHook(s, window) ==
    LET m == readMarker(hook.markers, s, hook.clock)
        lines == lastText(window)
        tools == toolCalls(window)
        description == extractCompletion(lines, tools)
    IN /\ hook' = [hook EXCEPT
                     !.markers = m.markers,
                     !.since[s] = IF @ < 2 THEN @ + 1 ELSE @,
                     !.last = [session |-> s, window |-> window,
                               description |-> description,
                               category |->
                                  categorizeCompletion(description, tools),
                               found |-> m.found, duration |-> m.duration,
                               nth |-> IF hook.since[s] < 2
                                       THEN hook.since[s] + 1 ELSE 2]]
       /\ UNCHANGED <<server, inst>>

(***************************************************************************)
(* Inputs                                                                  *)
(***************************************************************************)
Slots == 1..MaxSlots

\* the x-forwarded-for values of the callers
OneCaller == {NoHeader}
TwoCallers == {NoHeader, "10.0.0.1"}
Keys == {clientIp(h) : h \in TwoCallers}

\* a string of MAX_INPUT_LENGTH + 1 characters
TooLong == [i \in 1..(MAX_INPUT_LENGTH + 1) |-> "a"]

\* field values: absent, falsy and truthy non-strings, and strings that are
\* empty, plain, emptied by sanitization, and over-length
Plain == Str(<<"h", "i">>)
FieldValues ==
    {Undefined, Num(0), Num(7), Str(<<>>), Plain,
     Str(<<";", " ", "#", " ">>), Str(TooLong)}

\* one valid request with voice, one without voice, one invalid
BasicBodies ==
    {Body(Plain, Plain, Undefined, Undefined, Undefined),
     Body(Plain, Plain, Bool(FALSE), Undefined, Undefined),
     Body(Plain, Str(<<";">>), Undefined, Undefined, Undefined)}

\* requests that end at sendNotification's "if (voiceEnabled)" or before
QuietBodies == {Body(Plain, Plain, Bool(FALSE), Undefined, Undefined)}

\* every combination of field values for title and message
FieldBodies ==
    {Body(t, m, ve, id, Undefined) :
        t \in FieldValues, m \in FieldValues,
        ve \in {Undefined, Bool(FALSE)}, id \in {Undefined, Num(7)}}

\* the pieces the sanitizer's inputs are put together from
SanPieces ==
    {<<"<", "s", "c", "r", "i", "p", "t">>, <<"<", "S", "c", "R">>,
     <<"i", "p", "t">>, <<".", ".", "/">>, <<".", ".">>, <<"/">>, <<";">>,
     <<BACKQUOTE>>, <<"*">>, <<"#">>, <<" ">>, <<"a">>}

\* the strings of at most MaxPieces pieces
SanInputs ==
    {Flatten(ps) : ps \in UNION {[1..n -> SanPieces] : n \in 0..MaxPieces}}

\* requests without voice whose message is one of these strings
SanBodies ==
    {Body(Plain, Str(m), Bool(FALSE), Undefined, Undefined) : m \in SanInputs}

\* Pieces of messages with emotion tags: a whole tag whose label agrees with
\* the emoji (in mixed case after two blanks), a tag whose label is another
\* emoji's emotion, a tag without a blank, a bracket without an emoji, the two
\* halves of a tag in lower case, and plain text.
EmotionPieces ==
    {<<"[", EMOJI_SIREN, " ", " ", "U", "r", "G", "e", "n", "t", "]">>,
     <<"[", EMOJI_PARTY, " ">> \o SUCCESS \o <<"]">>,
     <<"[", EMOJI_BUG>> \o DEBUGGING \o <<"]">>,
     <<"[", "x", " ">> \o CAUTION \o <<"]">>,
     <<"[", EMOJI_PARTY, " ">>,
     CELEBRATION \o <<"]">>,
     <<" ">>, <<"a">>}

\* the strings of at most MaxPieces of these pieces
EmotionInputs ==
    {Flatten(ps) : ps \in UNION {[1..n -> EmotionPieces] : n \in 0..MaxPieces}}

\* requests without voice whose message is one of these strings
EmotionBodies ==
    {Body(Plain, Str(m), Bool(FALSE), Undefined, Undefined) : m \in EmotionInputs}

\* A voice-personalities.json: "a" is a key and nobody's voice_id, "b" is a key
\* and another profile's voice_id, "c" is the voice_id of two profiles.
SampleVoices ==
    Voices(<<Profile(<<"a">>, <<"b">>, 35, 65),
             Profile(<<"b">>, <<"c">>, 45, 70),
             Profile(<<"d">>, <<"c">>, 80, 20)>>)

\* the voice id ELEVENLABS_VOICE_ID or its built-in default
DEFAULT_VOICE == <<"v">>

\* Requests with voice: a message without a tag, one with an agreeing tag, one
\* with a disagreeing tag and one that is an agreeing tag and nothing else; as voice_id nothing, a profile key, a string
\* that is a key and a voice_id, a voice_id of two profiles, an unknown string
\* and the name of an inherited property; as voice_name nothing or a key.
VoiceMessages ==
    {<<"a">>,
     <<"[", EMOJI_SIREN, " ">> \o URGENT \o <<"]", "a">>,
     <<"[", EMOJI_PARTY, " ">> \o URGENT \o <<"]", "a">>,
     <<"[", EMOJI_SIREN, " ">> \o URGENT \o <<"]">>}

VoiceBodies ==
    {Body(Plain, Str(m), Undefined, id, name) :
        m \in VoiceMessages,
        id \in {Undefined, Str(<<"a">>), Str(<<"b">>), Str(<<"c">>),
                Str(<<"z">>), Str(CONSTRUCTOR)},
        name \in {Undefined, Str(<<"d">>)}}

\* the configurations: process.env at start-up and the files on disk
Envs ==
    [ELEVENLABS_API_KEY : BOOLEAN,
     TTS_PROVIDER : {"elevenlabs", "piper", "macos"},
     CHIME_ENABLED : BOOLEAN,
     piperModel : BOOLEAN,
     chimeFile : BOOLEAN,
     voicesConfig : {SampleVoices},
     DEFAULT_VOICE_ID : {DEFAULT_VOICE}]

DefaultEnv ==
    [ELEVENLABS_API_KEY |-> TRUE, TTS_PROVIDER |-> "elevenlabs",
     CHIME_ENABLED |-> TRUE, piperModel |-> TRUE, chimeFile |-> TRUE,
     voicesConfig |-> SampleVoices, DEFAULT_VOICE_ID |-> DEFAULT_VOICE]

\* with and without voice-personalities.json, the default voice being unknown
\* to the file or the voice_id of two of its profiles
VoiceEnvs ==
    {[DefaultEnv EXCEPT !.voicesConfig = v, !.DEFAULT_VOICE_ID = d] :
        v \in {NoVoices, SampleVoices}, d \in {DEFAULT_VOICE, <<"c">>}}

\* what the user types at a yes/no prompt, trimmed
Answers == {<<>>, <<"y">>, <<"Y", "e", "s">>, <<"n">>, <<"o", "k">>}

\* the directories ~/.claude and ~/.claude-BACKUP can be when main() starts
StartDirs(content) ==
    {Absent} \cup {Dir(files) : files \in [FileNames -> {"none", content}]}

\* Records of a turn window: assistant texts in which a "COMPLETED:" line
\* follows an action-verb line, has four characters, has nothing after the
\* label, has eleven words after a Summary heading, or follows a "Done:" line;
\* a text without a marker; an assistant record without text; and tool calls
\* that edit, write, read, search and run a command without description.
WindowRecords ==
    {Assistant(<<Line("none", FALSE, <<<<"F", "i", "x", "e", "d">>, <<"t", "h", "e">>,
                           <<"l", "o", "g", "i", "n">>, <<"b", "u", "g">>>>),
                 Line("COMPLETED", FALSE,
                      <<<<"[", "A", "G", "E", "N", "T", ":", "k", "a", "i", "]">>,
                        <<"A", "d", "d", "e", "d">>, <<"t", "h", "e">>,
                        <<"n", "e", "w">>, <<"p", "a", "r", "s", "e", "r">>>>)>>),
     Assistant(<<Line("COMPLETED", FALSE, <<<<"D", "o", "n", "e">>>>)>>),
     Assistant(<<Line("COMPLETED", FALSE, <<>>),
                 Line("none", FALSE,
                      <<<<"R", "e", "s", "o", "l", "v", "e", "d">>,
                        <<"t", "h", "e">>, <<"n", "e", "w">>,
                        <<"c", "o", "n", "f", "i", "g">>,
                        <<"i", "s", "s", "u", "e">>>>)>>),
     Assistant(<<Line("none", TRUE, <<<<"S", "u", "m", "m", "a", "r", "y">>>>),
                 Line("none", FALSE, <<<<"W", "h", "a", "t">>, <<"a", "b", "o", "u", "t">>,
                        <<"t", "h", "e">>, <<"e", "n", "v">>,
                        <<"s", "e", "t", "t", "i", "n", "g", "s", "?">>>>),
                 Line("COMPLETED", FALSE,
                      <<<<"a">>, <<"b">>, <<"c">>, <<"d">>, <<"e">>, <<"f">>,
                        <<"g">>, <<"h">>, <<"i">>, <<"j">>, <<"k">>>>)>>),
     Assistant(<<Line("Done", FALSE, <<<<"E", "x", "p", "l", "o", "r", "e", "d">>, <<"i", "t">>>>),
                 Line("COMPLETED", FALSE,
                      <<<<"R", "e", "v", "i", "e", "w", "e", "d">>,
                        <<"t", "h", "e">>,
                        <<"r", "e", "s", "e", "a", "r", "c", "h">>,
                        <<"n", "o", "t", "e", "s">>>>)>>),
     Assistant(<<Line("none", FALSE, <<<<"S", "u", "r", "e">>, <<"t", "h", "i", "n", "g">>>>),
                 Line("none", FALSE,
                      <<<<"H", "o", "w">>, <<"d", "o", "e", "s">>,
                        <<"t", "h", "e">>, <<"w", "e", "b">>,
                        <<"s", "e", "a", "r", "c", "h">>,
                        <<"w", "o", "r", "k", "?">>>>)>>),
     Assistant(<<>>),
     Tool("edit-file", <<<<"s", "r", "c">>, <<"a", ".", "t", "s">>>>, <<>>),
     Tool("write-file", <<<<".", "e", "n", "v">>>>, <<>>),
     Tool("read-file", <<<<"b", ".", "t", "s">>>>, <<>>),
     Tool("text-search", <<>>, <<>>),
     Tool("run-command", <<>>, <<>>)}

\* the turn windows of at most MaxPieces records
Windows == UNION {[1..n -> WindowRecords] : n \in 0..MaxPieces}

\* the hook lists of a hook type: at most two configs, whose hooks share
\* commands with each other or not
HookConfigs ==
    {Config("", cs) : cs \in {<<>>, <<"a">>, <<"b">>, <<"a", "b">>, <<"c">>}}

HookLists == UNION {[1..n -> HookConfigs] : n \in 0..2}

\* the hooks of a settings file: "Stop" with any of these lists or absent,
\* "PreToolUse" with one hook or absent
HookMaps ==
    {[t \in S |-> IF t = "Stop" THEN stop ELSE <<Config("Bash", <<"a">>)>>] :
        S \in SUBSET {"Stop", "PreToolUse"}, stop \in HookLists}

\* the bundle's template and the settings files the installer finds
BundleSettings == {SettingsFile([PAI_DIR |-> "kai"], h) : h \in HookMaps}

TargetSettings ==
    {SettingsFile(e, h) : e \in {<<>>, [PAI_DIR |-> "user"], [EDITOR |-> "vi"]},
                          h \in HookMaps}
       \cup {NoSettingsFile, Unparseable}

(***************************************************************************)
(* Specifications                                                          *)
(***************************************************************************)
InitServer ==
    /\ now = 0
    /\ requestCounts = <<>>
    /\ elevenLabsFailCount = 0
    /\ req = [r \in Slots |-> Idle]
    /\ inst = NotStarted
    /\ hook = NoHook
    /\ hist = [quotaEver |-> FALSE, lastQuota |-> FALSE, reopened |-> FALSE,
               streak |-> 0, atReset |-> FALSE,
               resetFrom |-> -1, win |-> [k \in Keys |-> NoWindow]]

\* the steps of the requests in flight
Pipeline(bodies, players) ==
    \/ \E r \in Slots, data \in bodies : JsonResolved(r, data)
    \/ \E r \in Slots, outcome \in players \cup {"skipped"} :
           ChimeDone(r, outcome)
    \/ \E r \in Slots, status \in ElStatuses : ElFetchDone(r, status)
    \/ \E r \in Slots, errorText \in ElErrorTexts : ElTextDone(r, errorText)
    \/ \E r \in Slots, ok \in BOOLEAN : ElBodyDone(r, ok)
    \/ \E r \in Slots : ElCatch(r)
    \/ \E r \in Slots, ok \in BOOLEAN : PiperDone(r, ok)
    \/ \E r \in Slots, ok \in BOOLEAN : MacosDone(r, ok)
    \/ \E r \in Slots, outcome \in players : PlayDone(r, outcome)

\* the requests that are answered without an await
Immediate(callers, routes) ==
    \/ \E r \in Slots, hdr \in callers, route \in routes :
           FetchOptions(r, hdr, route[1], route[2])
    \/ \E r \in Slots, hdr \in callers, route \in routes :
           FetchRateLimited(r, hdr, route[1], route[2])
    \/ \E r \in Slots, hdr \in callers, route \in routes :
           FetchPlain(r, hdr, route[1], route[2])

\* no POST /notify is in flight
Quiet == \A r \in Slots : ~InFlight(r)

\* Concurrent requests of one caller within one rate-limit window, in the
\* configurations that put the cloud provider first and play the chime; the
\* players exit with code 0.
Init ==
    /\ InitServer
    /\ env \in {e \in Envs : /\ e.ELEVENLABS_API_KEY
                             /\ e.TTS_PROVIDER = "elevenlabs"
                             /\ e.CHIME_ENABLED /\ e.chimeFile}

Next ==
    \/ Immediate(OneCaller, BasicRoutes)
    \/ \E r \in Slots, hdr \in OneCaller : FetchNotify(r, hdr)
    \/ Pipeline(BasicBodies, {"exit0"})

Spec == Init /\ [][Next]_vars

\* The POST /notify requests handled one after the other, in every
\* configuration.
InitSeq == InitServer /\ env \in Envs

NextSeq ==
    \/ Immediate(OneCaller, BasicRoutes)
    \/ \E r \in Slots, hdr \in OneCaller : Quiet /\ FetchNotify(r, hdr)
    \/ Pipeline(BasicBodies, PlayerOutcomes)

SpecSeq == InitSeq /\ [][NextSeq]_vars

\* The voice settings of the requests of VoiceBodies, handled one after the
\* other, on a host where the chime plays, the cloud provider answers and the
\* player exits with code 0.
InitVoice == InitServer /\ env \in VoiceEnvs

NextVoice ==
    \/ \E r \in Slots, hdr \in OneCaller : Quiet /\ FetchNotify(r, hdr)
    \/ \E r \in Slots :
          req[r].pc = "json" /\ \E data \in VoiceBodies : JsonResolved(r, data)
    \/ \E r \in Slots : ChimeDone(r, "exit0")
    \/ \E r \in Slots : ElFetchDone(r, 200)
    \/ \E r \in Slots : ElBodyDone(r, TRUE)
    \/ \E r \in Slots : PlayDone(r, "exit0")

SpecVoice == InitVoice /\ [][NextVoice]_vars

\* Two callers and the clock: the rate limiter over several windows, with
\* POST /notify handled one at a time, with bodies that ask for no voice.
InitRate == InitServer /\ env = DefaultEnv

NextRate ==
    \/ \E d \in {1, RATE_WINDOW} : Tick(d)
    \/ Immediate(TwoCallers, BasicRoutes)
    \/ \E r \in Slots, hdr \in TwoCallers : Quiet /\ FetchNotify(r, hdr)
    \/ \E r \in Slots, data \in QuietBodies : JsonResolved(r, data)

SpecRate == InitRate /\ [][NextRate]_vars

\* Every combination of field values in the body of POST /notify.
InitFields == InitServer /\ env = DefaultEnv

NextFields ==
    \/ Immediate(OneCaller, BasicRoutes)
    \/ \E r \in Slots, hdr \in OneCaller : Quiet /\ FetchNotify(r, hdr)
    \/ Pipeline(FieldBodies, {"exit0"})

SpecFields == InitFields /\ [][NextFields]_vars

\* The sanitizer and the validation applied to the messages of SanInputs.
InitSan == InitServer /\ env = DefaultEnv

NextSan ==
    \/ \E r \in Slots, hdr \in OneCaller : Quiet /\ FetchNotify(r, hdr)
    \/ \E r \in Slots :
          req[r].pc = "json" /\ \E data \in SanBodies : JsonResolved(r, data)

SpecSan == InitSan /\ [][NextSan]_vars

\* The emotion extraction applied to the messages of EmotionInputs.
InitEmotion == InitServer /\ env = DefaultEnv

NextEmotion ==
    \/ \E r \in Slots, hdr \in OneCaller : Quiet /\ FetchNotify(r, hdr)
    \/ \E r \in Slots :
          req[r].pc = "json" /\ \E data \in EmotionBodies : JsonResolved(r, data)

SpecEmotion == InitEmotion /\ [][NextEmotion]_vars

\* One run of the installation wizard, on every file system of StartDirs and
\* with every answer and every outcome of its commands.
InitInstall == InitServer /\ env = DefaultEnv

NextInstall ==
    \/ \E claude \in StartDirs("user"), backup \in StartDirs("old") :
          InstallStart(claude, backup)
    \/ \E answer \in Answers : AnswerFresh(answer)
    \/ \E answer \in Answers : AnswerOverwrite(answer)
    \/ \E ok \in BOOLEAN : RmDone(ok)
    \/ \E answer \in Answers : AnswerProceed(answer)
    \/ \E copied \in SUBSET FileNames : CpDone(copied)
    \/ ConfigDone
    \/ \E ok \in BOOLEAN : MkdirDone(ok)
    \/ \E ok \in BOOLEAN : GenerateDone(ok)
    \/ \E ok \in BOOLEAN : BundleDone(ok)

SpecInstall == InitInstall /\ [][NextInstall]_vars

\* Concurrent requests on a host without cloud key and chime, where Piper is
\* tried first and the macOS voice after it, while the clock advances by
\* milliseconds.
InitTemp ==
    /\ InitServer
    /\ env = [DefaultEnv EXCEPT !.ELEVENLABS_API_KEY = FALSE,
                                !.TTS_PROVIDER = "piper",
                                !.CHIME_ENABLED = FALSE]

NextTemp ==
    \/ Tick(1)
    \/ \E r \in Slots, hdr \in OneCaller : FetchNotify(r, hdr)
    \/ \E r \in Slots :
          JsonResolved(r, Body(Plain, Plain, Undefined, Undefined, Undefined))
    \/ \E r \in Slots, ok \in BOOLEAN : PiperDone(r, ok)
    \/ \E r \in Slots, ok \in BOOLEAN : MacosDone(r, ok)
    \/ \E r \in Slots : PlayDone(r, "exit0")

SpecTemp == InitTemp /\ [][NextTemp]_vars

\* a step of the audio section of the request in slot r, with every outcome
\* of its chime, providers and player
AudioStep(r) ==
    \/ \E outcome \in PlayerOutcomes \cup {"skipped"} : ChimeDone(r, outcome)
    \/ \E status \in ElStatuses : ElFetchDone(r, status)
    \/ \E errorText \in ElErrorTexts : ElTextDone(r, errorText)
    \/ \E ok \in BOOLEAN : ElBodyDone(r, ok)
    \/ ElCatch(r)
    \/ \E ok \in BOOLEAN : PiperDone(r, ok)
    \/ \E ok \in BOOLEAN : MacosDone(r, ok)
    \/ \E outcome \in PlayerOutcomes : PlayDone(r, outcome)

\* The POST /notify requests of one window, handled one after the other in
\* the configurations of Init.
NextLive ==
    \/ \E r \in Slots, hdr \in OneCaller : Quiet /\ FetchNotify(r, hdr)
    \/ \E r \in Slots, data \in BasicBodies : JsonResolved(r, data)
    \/ \E r \in Slots : AudioStep(r)

\* Every started process and every cloud call eventually settles: weak
\* fairness of each request's audio steps. Every body that is being read
\* eventually arrives: JsonResolved is enabled exactly while the request waits
\* for req.json(), so its weak fairness is that the request does not wait for
\* it forever.
Settles(r) == WF_vars(AudioStep(r)) /\ []<>(req[r].pc # "json")

SpecLive == Init /\ [][NextLive]_vars /\ \A r \in Slots : Settles(r)

\* mergeSettings applied, and applied again to its own result, for every
\* template of BundleSettings and every settings file of TargetSettings.
InitMerge == InitServer /\ env = DefaultEnv

NextMerge ==
    \/ \E bundle \in BundleSettings, target \in TargetSettings :
          MergeStart(bundle, target)
    \/ MergeSettings

SpecMerge == InitMerge /\ [][NextMerge]_vars

\* One run of the stop hook, on every turn window of Windows, with or without
\* a prompt hook before it.
InitHook == InitServer /\ env = DefaultEnv

NextHook ==
    \/ hook.last = NoRun /\ hook.since["s1"] = 0 /\ PromptSubmit("s1")
    \/ hook.last = NoRun /\ \E window \in Windows : StopHook("s1", window)

SpecHook == InitHook /\ [][NextHook]_vars

\* The prompt hook and the stop hook of two sessions, and the clock.
InitMarker == InitServer /\ env = DefaultEnv

NextMarker ==
    \/ \E s \in Sessions : PromptSubmit(s)
    \/ \E s \in Sessions : StopHook(s, <<>>)
    \/ HookTick

SpecMarker == InitMarker /\ [][NextMarker]_vars

(***************************************************************************)
(* Properties                                                              *)
(***************************************************************************)
Range(s) == {s[i] : i \in 1..Len(s)}
IsPrefix(s, t) == Len(s) <= Len(t) /\ s = SubSeq(t, 1, Len(s))
IsNotify(rec) == rec.method = "POST" /\ rec.path = "/notify"

\* the step in which request r enters generateSpeech
BuildStep(r) ==
    /\ req[r].pc \in {"json", "chime"}
    /\ req'[r].pc \notin {"json", "chime", "responded"}

\* a step in which a request is answered 429: the first rejection of a
\* window, or a slot that takes a 429 response
RejectStep ==
    \/ \E k \in Keys : ~hist.win[k].rej /\ hist'.win[k].rej
    \/ \E r \in Slots :
          /\ req'[r] # req[r]
          /\ req[r].pc \in {"idle", "responded"}
          /\ req'[r].pc = "responded"
          /\ req'[r].status = 429

\* the value the handler passes on for a field: "data.title || default"
Effective(v, default) == Or(v, Str(default))
IsString(v) == v.type = "string"

\* C1: between the first request of a window and that window's reset time a
\* client key has at most RATE_LIMIT requests admitted; every further request
\* of the key inside the window is answered 429. (The history counts each
\* admitted request into its window, so a request admitted into a full
\* window would take the count past RATE_LIMIT.)
C1_RateLimit == \A k \in Keys : hist.win[k].n <= RATE_LIMIT

\* C1 happens: a window is full and a further request inside it got 429
C1_Witness ==
    \E r \in Slots :
       /\ req[r].pc = "responded" /\ req[r].status = 429
       /\ hist.win[req[r].ip].n = RATE_LIMIT
       /\ hist.win[req[r].ip].rej
       /\ InWindow(hist.win[req[r].ip], now)

\* C2: once a cloud attempt has failed with a quota signal, no cascade that
\* starts afterwards has the cloud provider among its candidates, however
\* the requests interleave.
C2_QuotaSticky ==
    [][\A r \in Slots :
          (BuildStep(r) /\ hist.quotaEver)
          => "elevenlabs" \notin Range(req'[r].providers)]_vars

C4_CascadeOrder ==
    \A r \in Slots :
       LET rec == req[r]
           n == Len(rec.outcomes)
       IN /\ IsPrefix(rec.tried, rec.providers)
          /\ \A i, j \in 1..Len(rec.providers) :
                i < j => /\ rec.providers[i] # "macos"
                         /\ rec.providers[j] # "elevenlabs"
          /\ n <= Len(rec.tried) /\ Len(rec.tried) <= n + 1
          /\ \A i \in 1..(n - 1) : rec.outcomes[i] = "failed"
          /\ (rec.winner # "none")
             <=> (n > 0 /\ rec.outcomes[n] = "ok")
          /\ (rec.winner # "none")
             => /\ Len(rec.tried) = n
                /\ rec.winner = rec.tried[n]
                /\ rec.format = providerFormat(rec.winner)
          /\ (rec.winner = "none" /\ rec.pc = "responded") => ~rec.played

\* C4 happens: the first two candidates failed and the third one's audio is
\* played
C4_Witness ==
    \E r \in Slots :
       /\ req[r].tried = <<"elevenlabs", "piper", "macos">>
       /\ req[r].outcomes = <<"failed", "failed", "ok">>
       /\ req[r].winner = "macos"

\* C5: the candidate list built for a cascade is never empty and ends with
\* the platform provider; the cloud provider is in it only if it is the
\* configured primary, an API key is configured and the failure counter is
\* below ELEVENLABS_MAX_FAILS when the list is built; the local neural
\* provider only if the primary is not the platform one and its model file
\* is present.
C5_CandidateList ==
    [][\A r \in Slots :
          BuildStep(r)
          => LET list == req'[r].providers
             IN /\ Len(list) >= 1
                /\ list[Len(list)] = "macos"
                /\ "elevenlabs" \in Range(list)
                   => /\ env.TTS_PROVIDER = "elevenlabs"
                      /\ env.ELEVENLABS_API_KEY
                      /\ elevenLabsFailCount < ELEVENLABS_MAX_FAILS
                /\ "piper" \in Range(list)
                   => (env.TTS_PROVIDER # "macos" /\ env.piperModel)
                /\ req'[r].tried = <<list[1]>>]_vars

\* C5 happens: with a key, the cloud as primary and the model file present,
\* a list was built without the cloud provider because the counter had
\* reached the threshold
C5_Witness ==
    \E r \in Slots :
       /\ env.ELEVENLABS_API_KEY /\ env.TTS_PROVIDER = "elevenlabs"
       /\ env.piperModel
       /\ elevenLabsFailCount >= ELEVENLABS_MAX_FAILS
       /\ req[r].pc = "piper"
       /\ req[r].providers = <<"piper", "macos">>

BadField(v) == ~IsString(v) \/ Len(v.s) > MAX_INPUT_LENGTH

\* no chime, synthesis or playback was started for the request
Untouched(rec) ==
    ~rec.chimed /\ rec.tried = <<>> /\ rec.providers = <<>> /\ ~rec.played

\* C7: an admitted POST /notify whose title or message field is a
\* non-string value, or a string longer than 500 characters, is answered
\* 400 and starts no chime, synthesis or playback.
C7_BadFieldIs400 ==
    \A r \in Slots :
       (req[r].pc = "responded" /\ IsNotify(req[r]) /\ req[r].body # NoBody
          /\ (\/ BadField(Effective(req[r].body.title, DEFAULT_TITLE))
              \/ BadField(Effective(req[r].body.message, DEFAULT_MESSAGE))))
       => (req[r].status = 400 /\ Untouched(req[r]))

\* the value passed on for a field is a string of at most MAX_INPUT_LENGTH
\* characters of which sanitization leaves nothing
EmptiedBySanitization(v) ==
    /\ IsString(v)
    /\ Len(v.s) <= MAX_INPUT_LENGTH
    /\ sanitizeForSpeech(v.s) = <<>>

\* C8: an admitted POST /notify whose title or message is empty after
\* sanitization is answered 400 and starts no chime, synthesis or playback.
C8_EmptyIs400 ==
    \A r \in Slots :
       (req[r].pc = "responded" /\ IsNotify(req[r]) /\ req[r].body # NoBody
          /\ (\/ EmptiedBySanitization(Effective(req[r].body.title, DEFAULT_TITLE))
              \/ EmptiedBySanitization(Effective(req[r].body.message, DEFAULT_MESSAGE))))
       => (req[r].status = 400 /\ Untouched(req[r]))

\* C9: a request answered 429 changes nothing: the caller's rate-limit
\* record, every other caller's record, the cloud failure counter and the
\* other requests stay as they are, and no chime, synthesis, playback or
\* error-log write happens for it.
C9_RejectionHasNoEffect ==
    [][RejectStep
       => /\ requestCounts' = requestCounts
          /\ elevenLabsFailCount' = elevenLabsFailCount
          /\ \A r \in Slots :
                req'[r] # req[r]
                => /\ ~InFlight(r)
                   /\ req'[r].pc = "responded"
                   /\ req'[r].status = 429
                   /\ Untouched(req'[r])
                   /\ ~req'[r].logged
                   /\ req'[r].body = NoBody]_vars

\* C9 happens: a POST /notify was answered 429 while both callers have a
\* record
C9_Witness ==
    \E r \in Slots :
       /\ req[r].pc = "responded" /\ req[r].status = 429 /\ IsNotify(req[r])
       /\ DOMAIN requestCounts = Keys
       /\ requestCounts[req[r].ip].count = RATE_LIMIT

\* C10: when a request arrives after the reset time of its key's record,
\* it is admitted, and the record's count becomes 1 and its reset time the
\* arrival time plus RATE_WINDOW in the same step, whatever the old count.
C10_WindowRestart ==
    [][\A k \in Keys :
          (/\ hist'.win[k] # hist.win[k]
           /\ k \in DOMAIN requestCounts
           /\ now > requestCounts[k].resetTime)
          => /\ requestCounts'[k] = [count |-> 1, resetTime |-> now + RATE_WINDOW]
             /\ hist'.win[k] = [start |-> now, n |-> 1, rej |-> FALSE]
             /\ \E r \in Slots :
                   /\ req'[r].ip = k
                   /\ req'[r].pc \in {"json", "responded"}
                   /\ req'[r].status # 429]_vars

\* C10 happens: a key whose window was full, with a request rejected in
\* it, had a later request open a new window
C10_Witness ==
    /\ hist.reopened
    /\ \E k \in Keys :
          /\ k \in DOMAIN requestCounts
          /\ requestCounts[k] = [count |-> 1, resetTime |-> now + RATE_WINDOW]
          /\ now > RATE_WINDOW

\* the message of request r was given to validateInput as a string
Sanitized(r) ==
    /\ req[r].pc = "responded" /\ IsNotify(req[r]) /\ req[r].body # NoBody
    /\ IsString(req[r].body.title) /\ IsString(req[r].body.message)
    /\ req[r].body.message.s # <<>>

SCRIPT_OPENER == <<"<", "s", "c", "r", "i", "p", "t">>
HasScript(s) == \E i \in 1..Len(s) : MatchesAtCI(s, i, SCRIPT_OPENER)
HasTraversal(s) == \E i \in 1..Len(s) : MatchesAt(s, i, <<".", ".", "/">>)
HasShellMeta(s) == \E i \in 1..Len(s) : IsShellMeta(s[i])

\* C11: the output of sanitizeForSpeech contains no shell metacharacter and
\* no script-tag opener, in any letter case, whatever the input.
C11_NoShellMeta ==
    \A r \in Slots :
       Sanitized(r)
       => LET out == sanitizeForSpeech(req[r].body.message.s)
          IN ~HasShellMeta(out) /\ ~HasScript(out)

\* C11 happens: a message in which removing one script-tag opener brings the
\* halves of another together, with a shell metacharacter in it too, was
\* sanitized to a text that is not empty
C11_Witness ==
    \E r \in Slots :
       /\ Sanitized(r)
       /\ req[r].body.message.s =
             <<"<", "S", "c", "R">> \o SCRIPT_OPENER \o <<"i", "p", "t">>
       /\ sanitizeForSpeech(req[r].body.message.s) = <<"S", "c", "R", "i", "p", "t">>
       /\ req[r].status = 200

\* C12: the output of sanitizeForSpeech contains no path-traversal sequence
\* "../", whatever the input.
C12_NoTraversal ==
    \A r \in Slots :
       Sanitized(r) => ~HasTraversal(sanitizeForSpeech(req[r].body.message.s))

\* a pair of '*' or of backquotes with something between them, or a '#'
\* followed by whitespace
HasMarkup(s) ==
    \/ \E i, j \in 1..Len(s) :
          /\ i + 1 < j
          /\ s[i] = s[j]
          /\ s[i] \in {"*", BACKQUOTE}
          /\ \A k \in (i + 1)..(j - 1) : s[k] # s[i]
    \/ \E i \in 1..(Len(s) - 1) : s[i] = "#" /\ IsSpace(s[i + 1])

\* a message without unsafe content and without markup
IsCleanMessage(s) ==
    /\ s # <<>> /\ Len(s) <= MAX_INPUT_LENGTH
    /\ ~HasScript(s) /\ ~HasTraversal(s) /\ ~HasShellMeta(s) /\ ~HasMarkup(s)

\* C13 as stated: every non-empty message of at most 500 characters without
\* script-tag opener, "../", shell metacharacter or markdown markup is
\* reported valid by validateInput, with the trimmed message as its
\* sanitized value.
C13_CleanIsValid ==
    \A r \in Slots :
       (Sanitized(r) /\ IsCleanMessage(req[r].body.message.s))
       => /\ validateInput(req[r].body.message).valid
          /\ validateInput(req[r].body.message).sanitized = Trim(req[r].body.message.s)
          /\ req[r].status = 200

\* C13, amended: the same for every such message that has a character other
\* than whitespace; a message of whitespace alone is reported invalid.
C13_CleanNonBlankIsValid ==
    \A r \in Slots :
       (Sanitized(r) /\ IsCleanMessage(req[r].body.message.s))
       => IF \E i \in 1..Len(req[r].body.message.s) : ~IsSpace(req[r].body.message.s[i])
          THEN /\ validateInput(req[r].body.message).valid
               /\ validateInput(req[r].body.message).sanitized
                     = Trim(req[r].body.message.s)
               /\ req[r].status = 200
          ELSE /\ ~validateInput(req[r].body.message).valid
               /\ req[r].status = 400

\* C13 happens: a clean message with whitespace around it and a lone '#' and
\* '*' in it was accepted
C13_Witness ==
    \E r \in Slots :
       /\ Sanitized(r)
       /\ req[r].body.message.s = <<" ", "#", "*">>
       /\ IsCleanMessage(req[r].body.message.s)
       /\ validateInput(req[r].body.message).sanitized = <<"#", "*">>
       /\ req[r].status = 200

\* a bracketed tag starts at index i of s, with w blanks and a label of l
\* characters
IsTagAt(s, i, w, l) ==
    /\ i + 2 + w + l <= Len(s)
    /\ s[i] = "[" /\ s[i + 1] \in Emojis
    /\ \A k \in 1..w : IsSpace(s[i + 1 + k])
    /\ \A k \in 1..l : s[i + 1 + w + k] \in WordChars
    /\ s[i + 2 + w + l] = "]"

\* the bracketed tags of s
Tags(s) ==
    UNION {UNION {{<<i, w, l>> : l \in {l \in 1..(Len(s) - i) :
                                          IsTagAt(s, i, w, l)}} :
                  w \in {w \in 1..(Len(s) - i) :
                            \A k \in 1..w : i + 1 + k <= Len(s)
                                             /\ IsSpace(s[i + 1 + k])}} :
           i \in {i \in 1..(Len(s) - 1) : s[i] = "[" /\ s[i + 1] \in Emojis}}

\* the first of them
FirstTagOf(s) ==
    LET all == Tags(s) IN CHOOSE t \in all : \A u \in all : t[1] <= u[1]

TagEmoji(s, t) == s[t[1] + 1]
TagLabel(s, t) == [k \in 1..t[3] |-> Lower(s[t[1] + 1 + t[2] + k])]
WithoutTag(s, t) ==
    [k \in 1..(Len(s) - (3 + t[2] + t[3])) |->
        IF k < t[1] THEN s[k] ELSE s[k + 3 + t[2] + t[3]]]

\* the first tag of s is one whose label agrees with its emoji
FirstTagAgrees(s) ==
    /\ Tags(s) # {}
    /\ LET t == FirstTagOf(s)
       IN TagLabel(s, t) = emojiToEmotion[TagEmoji(s, t)]

\* a notification was accepted: its message went through the extraction
Extracted(r) == Sanitized(r) /\ req[r].status = 200

\* C14: extractEmotionalMarker: when the first bracketed tag "[emoji label]"
\* of the (sanitized) message has a label that, lower-cased, is the emotion
\* the table maps the emoji to, the result is the message without that tag,
\* trimmed, and that emotion name; in every other case the message comes back
\* unchanged and there is no emotion.
C14_EmotionMarker ==
    \A r \in Slots :
       Extracted(r)
       => LET s == validateInput(req[r].body.message).sanitized
          IN IF FirstTagAgrees(s)
             THEN LET t == FirstTagOf(s)
                  IN /\ req[r].emotion = emojiToEmotion[TagEmoji(s, t)]
                     /\ req[r].text = Trim(WithoutTag(s, t))
             ELSE /\ req[r].emotion = NoEmotion
                  /\ req[r].text = s

\* C14 happens: a tag in mixed case after two blanks, between two letters, was
\* taken out of the message and gave the emotion "urgent"
C14_Witness ==
    \E r \in Slots :
       /\ Extracted(r)
       /\ req[r].body.message.s
             = <<"a", "[", EMOJI_SIREN, " ", " ", "U", "r", "G", "e", "n", "t", "]", "a">>
       /\ req[r].text = <<"a", "a">>
       /\ req[r].emotion = URGENT

\* the profiles of the configuration, none when there is no file
ProfilesOf(e) == IF e.voicesConfig.loaded THEN e.voicesConfig.voices ELSE <<>>

\* the settings the priority order gives for an emotion hint and a voice
\* identifier: the preset, else the profile with that key, else the first
\* profile with that voice_id, else the flat default
ByPriority(emotion, voice, profiles) ==
    IF emotion # NoEmotion THEN EMOTIONAL_PRESETS[emotion]
    ELSE IF \E i \in 1..Len(profiles) : profiles[i].key = voice
    THEN LET p == profiles[CHOOSE i \in 1..Len(profiles) : profiles[i].key = voice]
         IN Settings(p.stability, p.similarity_boost)
    ELSE IF \E i \in 1..Len(profiles) : profiles[i].voice_id = voice
    THEN LET first == CHOOSE i \in 1..Len(profiles) :
                         /\ profiles[i].voice_id = voice
                         /\ \A j \in 1..Len(profiles) :
                               profiles[j].voice_id = voice => i <= j
             p == profiles[first]
         IN Settings(p.stability, p.similarity_boost)
    ELSE Settings(50, 50)

\* the request's text has been handed to generateSpeech
Synthesis(r) == req[r].tried # <<>>

\* C15: the voice settings handed to synthesis are the extracted emotion's
\* preset whenever there is an emotion hint; otherwise the stability and
\* similarity of the profile the requested voice identifier resolves to, by
\* profile key first and then by voice_id; otherwise stability 0.5 and
\* similarity_boost 0.5. A profile never overrides an emotion preset.
C15_SettingsPriority ==
    \A r \in Slots :
       Synthesis(r)
       => req[r].voiceSettings
             = ByPriority(req[r].emotion, req[r].voice, ProfilesOf(env))

\* the stages in which a provider is at work for the request
ProviderStages == {"el_fetch", "el_text", "el_body", "el_catch", "piper", "macos"}

\* C16: within one request the audio steps follow one another: the chime,
\* played when it is enabled and its file exists, has ended before the first
\* provider is attempted, and a provider has returned the audio before the
\* playback of the request starts.
C16_AudioStepsInOrder ==
    \A r \in Slots :
       LET rec == req[r]
       IN /\ rec.pc = "chime" => (rec.tried = <<>> /\ ~rec.played)
          /\ (rec.tried # <<>> /\ env.CHIME_ENABLED /\ env.chimeFile)
             => (rec.chimed /\ rec.chimeEnd \in PlayerOutcomes)
          /\ rec.chimed => (env.CHIME_ENABLED /\ env.chimeFile)
          /\ rec.pc \in ProviderStages => ~rec.played
          /\ rec.played
             => /\ rec.pc \in {"play", "responded"}
                /\ rec.outcomes # <<>>
                /\ rec.outcomes[Len(rec.outcomes)] = "ok"
                /\ rec.winner = rec.tried[Len(rec.tried)]

\* C16 happens: the chime has played, two providers have been attempted, and
\* the audio of the second is being played
C16_Witness ==
    \E r \in Slots :
       /\ req[r].chimed /\ req[r].chimeEnd = "exit0"
       /\ req[r].outcomes = <<"failed", "ok">>
       /\ req[r].pc = "play"

\* C17: a chime whose player cannot be started or exits with any code does
\* not prevent the notification: the step that ends the chime enters the
\* cascade for the same request, with nothing logged and nothing answered,
\* and leaves the request as a chime that has played would, but for the
\* record of how the chime ended.
C17_ChimeFailureSwallowed ==
    [][\A r \in Slots :
          (req[r].pc = "chime" /\ req'[r] # req[r])
          => /\ req'[r].pc \in ProviderStages
             /\ req'[r].providers # <<>>
             /\ req'[r].tried = <<req'[r].providers[1]>>
             /\ req'[r].failed = "none" /\ ~req'[r].logged
             /\ req'[r].status = 0
             /\ [req'[r] EXCEPT !.chimeEnd = "exit0"]
                   = withTempNames(req[r],
                        afterChime(req[r], "exit0", env, elevenLabsFailCount),
                        now)]_vars

\* C17 happens: the chime's player could not be started, and the request was
\* synthesized, played and answered 200 with nothing logged
C17_Witness ==
    \E r \in Slots :
       /\ req[r].chimed /\ req[r].chimeEnd = "error"
       /\ req[r].pc = "responded" /\ req[r].status = 200
       /\ req[r].winner # "none" /\ req[r].failed = "none" /\ ~req[r].logged

\* C18: every playAudio that has written its temporary file has deleted it
\* when it has settled, whether the player exited with code 0, exited with
\* another code, or could not be started.
C18_TempFileDeleted ==
    \A r \in Slots :
       (req[r].pc = "responded" /\ req[r].tempFile # "none")
       => req[r].tempFile = "deleted"

\* C19: a cloud call that is answered with success sets the failure counter
\* to zero, whatever the counter was.
C19_SuccessResetsCounter ==
    [][\A r \in Slots :
          (req[r].pc = "el_fetch" /\ req'[r].pc = "el_body")
          => elevenLabsFailCount' = 0]_vars

\* C19 happens: the counter stood at two when a cloud call succeeded, and is
\* zero while that call's audio is played
C19_Witness ==
    \E r \in Slots :
       /\ req[r].pc = "play" /\ req[r].winner = "elevenlabs"
       /\ hist.resetFrom = 2
       /\ elevenLabsFailCount = 0

\* C20 as stated: every GET /health is answered 200 with the snapshot, in
\* every reachable state and after any earlier requests of the caller.
C20_HealthAlways200 ==
    \A r \in Slots :
       (req[r].pc = "responded" /\ req[r].method = "GET" /\ req[r].path = "/health")
       => (req[r].status = 200 /\ req[r].snapshot # NoSnapshot)

\* C20, amended: a GET /health that arrives while its caller's window is not
\* full is answered 200 with the snapshot of the configuration and of the
\* failure counter as they are, whatever requests are in flight; one that
\* arrives in a full window is answered 429 without the snapshot.
C20_HealthUnlessLimited ==
    [][\A r \in Slots :
          (/\ req'[r] # req[r]
           /\ req'[r].pc = "responded"
           /\ req'[r].method = "GET" /\ req'[r].path = "/health")
          => LET w == hist.win[req'[r].ip]
             IN IF InWindow(w, now) /\ w.n >= RATE_LIMIT
                THEN req'[r].status = 429 /\ req'[r].snapshot = NoSnapshot
                ELSE /\ req'[r].status = 200
                     /\ req'[r].snapshot =
                           [status |-> "healthy",
                            tts_provider |-> env.TTS_PROVIDER,
                            elevenlabs |->
                               [available |-> env.ELEVENLABS_API_KEY,
                                failCount |-> elevenLabsFailCount],
                            piper |-> [available |-> env.piperModel],
                            macos |-> [available |-> TRUE],
                            chime_enabled |-> env.CHIME_ENABLED]]_vars

\* C20 happens: while a POST /notify is in flight and the failure counter is
\* not zero, a GET /health was answered 200 with that counter in its snapshot
C20_Witness ==
    \E r, q \in Slots :
       /\ InFlight(q)
       /\ req[r].pc = "responded" /\ req[r].method = "GET"
       /\ req[r].path = "/health" /\ req[r].status = 200
       /\ elevenLabsFailCount > 0
       /\ req[r].snapshot.elevenlabs.failCount = elevenLabsFailCount

\* C21: every OPTIONS request is answered 204, also when its caller is over
\* the rate limit, and the step that answers it leaves the rate-limit table
\* and the cloud failure counter as they were.
C21_OptionsIs204 ==
    [][\A r \in Slots :
          (req'[r] # req[r] /\ req'[r].method = "OPTIONS")
          => /\ req'[r].pc = "responded" /\ req'[r].status = 204
             /\ requestCounts' = requestCounts
             /\ elevenLabsFailCount' = elevenLabsFailCount]_vars

\* C21 happens: every request so far has gone through the first slot, the
\* caller has been rejected in the window that is still open, and the last
\* request, an OPTIONS of that caller, was answered 204
C21_Witness ==
    /\ req[1].pc = "responded" /\ req[1].method = "OPTIONS"
    /\ req[1].status = 204
    /\ \A q \in Slots \ {1} : req[q] = Idle
    /\ InWindow(hist.win[req[1].ip], now) /\ hist.win[req[1].ip].rej
    /\ req[1].ip \in DOMAIN requestCounts
    /\ requestCounts[req[1].ip].count >= RATE_LIMIT

\* the file system of the installer differs between the two states of a step
FsChanges == inst'.claude # inst.claude \/ inst'.backup # inst.backup

\* C22: in every run of the installer nothing is created, changed or deleted
\* before the user has said yes to the confirmations, and a run in which the
\* user declines a confirmation of detectAndBackup ends with ~/.claude and an
\* existing ~/.claude-BACKUP exactly as they were at its start.
C22_NothingBeforeConfirmation ==
    [][inst.pc # "off"
       => /\ FsChanges => inst.proceed
          /\ (inst'.pc = "exit" /\ inst'.declined)
             => /\ inst'.claude = inst.start.claude
                /\ inst'.backup = inst.start.backup]_vars

\* C23: when ~/.claude existed at the start, every step that changes it comes
\* after cp -r has completed with ~/.claude-BACKUP a copy of the original, and
\* a run that has modified ~/.claude ends with the original files in the
\* backup.
C23_BackupBeforeWrites ==
    [][(inst.pc # "off" /\ inst.start.claude.exists)
       => /\ inst'.claude # inst.claude
             => inst.copied /\ inst.backup = inst.start.claude
          /\ (inst'.pc = "exit" /\ inst'.claude # inst.start.claude)
             => inst'.backup = inst.start.claude]_vars

\* C23 happens: a run over an existing ~/.claude and an older backup has ended
\* with success, ~/.claude modified and the original in the backup
C23_Witness ==
    /\ inst.pc = "exit" /\ inst.code = 0
    /\ inst.start.claude = Dir([f \in FileNames |-> "user"])
    /\ inst.start.backup = Dir([f \in FileNames |-> "old"])
    /\ inst.claude = Dir([f \in FileNames |->
                             IF f = ".env" THEN "kai" ELSE "merged"])
    /\ inst.backup = inst.start.claude

\* the categories in the order of their rules
RuleOrder ==
    <<"Bug fixed", "Feature added", "Question answered", "Config changed",
      "Search complete", "Code updated", "Analysis complete">>

\* the rule of a category
RuleOf(category) ==
    CategoryRules[CHOOSE i \in 1..Len(CategoryRules) :
                     CategoryRules[i].category = category]

\* the places in RuleOrder of the rules that match the last run's input
Matching ==
    {i \in 1..Len(RuleOrder) :
        ruleMatches(RuleOf(RuleOrder[i]), hook.last.description,
                    toolCalls(hook.last.window))}

\* C24: categorization is total and deterministic: every description and
\* tool-call list gets exactly one of the 8 categories, the one of the first
\* matching rule in the order bug-fix, feature, Q&A, config, search,
\* file-modification, analysis, and "Task completed" when no rule matches.
C24_FirstRuleWins ==
    hook.last # NoRun
    => /\ hook.last.category \in {RuleOrder[i] : i \in 1..7} \cup {"Task completed"}
       /\ hook.last.category =
             IF Matching = {} THEN "Task completed"
             ELSE RuleOrder[CHOOSE i \in Matching : \A j \in Matching : i <= j]

\* C24 happens: the description holds a bug-fix, a feature and a config
\* keyword and was put in the category "Bug fixed"
C24_Witness ==
    /\ hook.last # NoRun
    /\ {1, 2, 4} \subseteq Matching
    /\ hook.last.category = "Bug fixed"

\* C25: the prompt-start marker of a session is consumed at most once: after a
\* completion run and until the next prompt there is no marker, a second
\* completion run without a new prompt finds none and reports the duration
\* zero, and a run without a marker reports zero.
C25_MarkerReadOnce ==
    /\ \A s \in Sessions : hook.since[s] >= 1 => hook.markers[s] = NoMarker
    /\ hook.last # NoRun
       => /\ hook.last.nth >= 2 => ~hook.last.found
          /\ ~hook.last.found => hook.last.duration = 0

\* C25 happens: after a prompt and some time the stop hook has run twice for
\* the session, and the second run found no marker and reported zero
C25_Witness ==
    /\ hook.last # NoRun /\ hook.last.nth = 2
    /\ hook.clock > 0
    /\ ~hook.last.found /\ hook.last.duration = 0
    /\ hook.markers[hook.last.session] = NoMarker

\* the trailing texts of the "COMPLETED:" lines of a window, each without
\* its agent tag
CompletedTexts(window) ==
    UNION {{stripAgentTag(window[n].lines[i].words) :
              i \in {i \in 1..Len(window[n].lines) :
                       window[n].lines[i].label = "COMPLETED"}} :
           n \in {n \in 1..Len(window) : window[n].type = "assistant"}}

\* C26: whenever the turn window holds a "COMPLETED:" marker line, the
\* extracted description is the marker's trailing text, trimmed and without
\* its agent tag, whatever else the window holds.
C26_MarkerWins ==
    (hook.last # NoRun /\ CompletedTexts(hook.last.window) # {})
    => hook.last.description \in CompletedTexts(hook.last.window)

\* C27: in every reachable state, under any interleaving of concurrent
\* requests, elevenLabsFailCount is between 0 and ELEVENLABS_MAX_FAILS, and a
\* quota failure, once generateSpeech has handled it, leaves the counter
\* exactly at ELEVENLABS_MAX_FAILS.
C27_FailCountInRange ==
    /\ [](elevenLabsFailCount \in 0..ELEVENLABS_MAX_FAILS)
    /\ [][\A r \in Slots :
             (req[r].pc = "el_catch" /\ req[r].quota /\ req'[r].pc # "el_catch")
             => elevenLabsFailCount' = ELEVENLABS_MAX_FAILS]_vars

\* the request in slot r is an admitted, valid POST /notify with voice enabled
\* that is answered in this step
VoiceAnswered(r) ==
    /\ req[r].pc # "responded" /\ req'[r].pc = "responded"
    /\ req'[r].body # NoBody
    /\ notifyError(req'[r].body) = NoError
    /\ voiceEnabledOf(req'[r].body)

\* C28: the response to an admitted, valid POST /notify with voice enabled is
\* sent only by the step that ends the last of its audio steps: the chime has
\* ended (or was skipped), the cascade has ended with a winner or with every
\* candidate failed, and, when there is a winner, the step that answers is the
\* end of the playback; when there is none, it is the failure of the last
\* candidate.
C28_ResponseAfterAudio ==
    [][\A r \in Slots :
          VoiceAnswered(r)
          => LET rec == req'[r]
             IN /\ env.CHIME_ENABLED => rec.chimeEnd # "none"
                /\ rec.chimed => rec.chimeEnd \in PlayerOutcomes
                /\ Len(rec.outcomes) = Len(rec.tried) /\ rec.tried # <<>>
                /\ IF rec.winner # "none"
                   THEN /\ req[r].pc = "play"
                        /\ rec.outcomes[Len(rec.outcomes)] = "ok"
                        /\ rec.tempFile = "deleted" \/ rec.failed = "playback"
                   ELSE /\ req[r].pc \in ProviderStages
                        /\ rec.tried = rec.providers
                        /\ \A i \in 1..Len(rec.outcomes) : rec.outcomes[i] = "failed"
                        /\ rec.failed = "synthesis"]_vars

\* C28 happens: a request whose chime played, whose first candidate failed and
\* whose second returned audio has been answered 200 after the player exited
C28_Witness ==
    \E r \in Slots :
       /\ req[r].pc = "responded" /\ req[r].status = 200
       /\ req[r].chimed /\ req[r].chimeEnd = "exit0"
       /\ req[r].outcomes = <<"failed", "ok">>
       /\ req[r].tempFile = "deleted" /\ req[r].failed = "none"

\* C29: the text handed to generateSpeech is never the empty string: once a
\* request's message has passed validation and its emotion tag is taken out,
\* the text that remains is non-empty, and so is the text of every request
\* whose cascade has been entered.
C29_SpokenTextNonEmpty ==
    \A r \in Slots :
       /\ (req[r].body # NoBody /\ notifyError(req[r].body) = NoError)
          => req[r].text # <<>>
       /\ req[r].tried # <<>> => req[r].text # <<>>

LiveFiles(r) ==
    (IF req[r].pc \in {"piper", "macos"} THEN {req[r].synthName} ELSE {})
    \cup (IF req[r].pc = "play" THEN {req[r].playName} ELSE {})

\* C31: two requests never have live temporary files of the same name: not
\* the audio files of two playAudio calls, and not the output files of two
\* concurrent Piper or macOS synthesis calls.
C31_TempNamesDistinct ==
    \A r, q \in Slots : r # q => LiveFiles(r) \cap LiveFiles(q) = {}

\* C32: the format used for playback is that of the provider that produced the
\* audio: mp3 exactly when the cloud provider won, wav exactly when Piper won,
\* aiff exactly when the macOS provider won; the file that is played carries
\* that format as its extension.
C32_FormatByProvider ==
    \A r \in Slots :
       req[r].played
       => /\ req[r].format = "mp3" <=> req[r].winner = "elevenlabs"
          /\ req[r].format = "wav" <=> req[r].winner = "piper"
          /\ req[r].format = "aiff" <=> req[r].winner = "macos"
          /\ req[r].format \in {"mp3", "wav", "aiff"}
          /\ req[r].playName.prefix = "voice"
          /\ req[r].playName.ext = req[r].format

\* C32 happens: the cloud provider and Piper failed, the macOS provider
\* returned audio, and an aiff file is being played
C32_Witness ==
    \E r \in Slots :
       /\ req[r].pc = "play"
       /\ req[r].tried = <<"elevenlabs", "piper", "macos">>
       /\ req[r].winner = "macos"
       /\ req[r].playName.ext = "aiff"

\* C33: playback is not serialized across requests: whatever the other
\* requests are doing, a request whose synthesis process or player is running
\* can take its next step, so that no request waits for another.
C33_NoSerialization ==
    \A r \in Slots :
       /\ req[r].pc = "piper" => ENABLED PiperDone(r, TRUE)
       /\ req[r].pc = "macos" => ENABLED MacosDone(r, TRUE)
       /\ req[r].pc = "play" => ENABLED PlayDone(r, "exit0")

\* C33 happens: two requests are in their playback at the same time, and two
\* players are running
C33_Witness ==
    /\ \A r \in {1, 2} : req[r].pc = "play" /\ req[r].tempFile = "written"
    /\ req[1].playName # NoName /\ req[2].playName # NoName

\* title or message, as the handler passes it on, is rejected by validateInput
InvalidInput(data) ==
    \/ ~validateInput(Effective(data.title, DEFAULT_TITLE)).valid
    \/ ~validateInput(Effective(data.message, DEFAULT_MESSAGE)).valid

\* C34: a POST /notify with voice_enabled = false has its title and message
\* validated and is answered 400 when one of them is invalid and 200
\* otherwise; it plays no chime, attempts no provider, plays no audio and
\* leaves the cloud failure counter unchanged. A valid request that omits
\* voice_enabled is not answered before its voice section has run.
C34_VoiceDisabled ==
    [][\A r \in Slots :
          (req[r].pc = "json" /\ req'[r].pc # "json"
             /\ req'[r].body.voice_id = Undefined
             /\ req'[r].body.voice_name = Undefined)
          => LET data == req'[r].body
             IN /\ data.voice_enabled = Bool(FALSE)
                   => /\ req'[r].pc = "responded"
                      /\ req'[r].status = IF InvalidInput(data) THEN 400 ELSE 200
                      /\ Untouched(req'[r])
                      /\ elevenLabsFailCount' = elevenLabsFailCount
                /\ (data.voice_enabled = Undefined /\ ~InvalidInput(data))
                   => req'[r].pc # "responded"]_vars

\* the record of key k in the table rc, or none
RecordOf(rc, k) == IF k \in DOMAIN rc THEN {rc[k]} ELSE {}

\* the next request of key k at time t would be admitted
Admits(rc, k, t) ==
    \A rec \in RecordOf(rc, k) : t > rec.resetTime \/ rec.count < RATE_LIMIT

\* C35: rate-limit records are independent per caller key: a step that changes
\* the record of one key is the step of a request of that key, and it leaves
\* the count and reset time of every other key's record, and whether that
\* key's next request is admitted, as they were.
C35_KeysIndependent ==
    [][\A k \in Keys :
          RecordOf(requestCounts', k) # RecordOf(requestCounts, k)
          => /\ \A r \in Slots : req'[r] # req[r] => req'[r].ip = k
             /\ \A j \in Keys \ {k} :
                   /\ RecordOf(requestCounts', j) = RecordOf(requestCounts, j)
                   /\ Admits(requestCounts', j, now') = Admits(requestCounts, j, now)]_vars

\* C35 happens: both keys have a record, opened at different times and with
\* different counts
C35_Witness ==
    /\ DOMAIN requestCounts = Keys
    /\ requestCounts["localhost"].count = 3
    /\ requestCounts["10.0.0.1"].count = 1
    /\ requestCounts["localhost"].resetTime < requestCounts["10.0.0.1"].resetTime

\* a request that passes through the rate limiter arrives in slot r
LimitedArrival(r) ==
    /\ ~InFlight(r) /\ req'[r] # req[r]
    /\ req'[r].method # "OPTIONS"

\* C36: a request that arrives exactly at the reset time of its key's record
\* is counted in the old window: it is answered 429 and changes nothing when
\* the count has reached RATE_LIMIT, and otherwise adds one to the old count
\* and keeps the reset time; a record is replaced by a new window only by a
\* request that arrives strictly after its reset time.
C36_ResetTimeInclusive ==
    [][\A r \in Slots :
          LET k == req'[r].ip
          IN (LimitedArrival(r) /\ k \in DOMAIN requestCounts)
             => /\ now = requestCounts[k].resetTime
                   => IF requestCounts[k].count >= RATE_LIMIT
                      THEN /\ req'[r].status = 429
                           /\ requestCounts' = requestCounts
                      ELSE /\ req'[r].status # 429
                           /\ requestCounts'[k] =
                                 [count |-> requestCounts[k].count + 1,
                                  resetTime |-> requestCounts[k].resetTime]
                /\ requestCounts'[k].resetTime # requestCounts[k].resetTime
                   => now > requestCounts[k].resetTime]_vars

\* C36 happens: the last request arrived exactly at the reset time of its
\* key's record, whose count had reached RATE_LIMIT, and was answered 429
C36_Witness ==
    /\ hist.atReset
    /\ \E r \in Slots :
          /\ req[r].pc = "responded" /\ req[r].status = 429
          /\ requestCounts[req[r].ip] = [count |-> RATE_LIMIT, resetTime |-> now]

\* C37: every admitted POST /notify eventually receives exactly one response,
\* whatever its providers, chime and player do, as long as each of them
\* settles: a request that is being handled is eventually answered, an
\* answered request is not answered again (its slot changes only when a new
\* request arrives), and no request has more than three provider attempts.
C37_EventuallyAnswered ==
    /\ \A r \in Slots : (req[r].pc = "json") ~> (req[r].pc = "responded")
    /\ [](\A r \in Slots : Len(req[r].tried) <= 3)
    /\ [][\A r \in Slots :
             (req[r].pc = "responded" /\ req'[r] # req[r])
             => (req'[r].pc = "json" /\ req'[r].body = NoBody)]_vars

\* C37 happens: a request whose chime could not be started and whose three
\* providers all failed has been answered
C37_Witness ==
    \E r \in Slots :
       /\ req[r].pc = "responded" /\ req[r].status = 200
       /\ req[r].chimeEnd = "error"
       /\ req[r].outcomes = <<"failed", "failed", "failed">>
       /\ req[r].logged

\* C38: sanitizeForSpeech is idempotent: sanitizing the sanitized form of a
\* message of at most 500 characters again returns it unchanged.
C38_SanitizeIdempotent ==
    \A r \in Slots :
       (Sanitized(r) /\ Len(req[r].body.message.s) <= MAX_INPUT_LENGTH)
       => LET out == sanitizeForSpeech(req[r].body.message.s)
          IN sanitizeForSpeech(out) = out

\* how many hooks of the configs have the command c
Registrations(configs, c) ==
    Cardinality({p \in (1..Len(configs)) \X (1..2) :
                    /\ p[2] <= Len(configs[p[1]].hooks)
                    /\ configs[p[1]].hooks[p[2]] = c})

\* C39: mergeSettings adds bundle hooks only if not already present: after a
\* merge into existing settings every command that was registered for a hook
\* type is registered for it as often as before, and a run of mergeSettings
\* on its own result changes nothing.
C39_MergeAddsOnlyNew ==
    (inst.pc = "merge" /\ inst.runs >= 1 /\ inst.before.kind = "json")
    => /\ \A t \in DOMAIN inst.before.hooks :
             \A c \in existingCommands(inst.before.hooks[t]) :
                Registrations(inst.target.hooks[t], c) =
                   Registrations(inst.before.hooks[t], c)
       /\ inst.runs >= 2 => inst.target = inst.before

====
